---------------------------- MODULE Spec2Model ----------------------------
(***************************************************************************)
(* A model of the Lume G-code core: the parser (core/gcode_parser.py),     *)
(* the geometry builder (core/geometry_builder.py), the import pipeline    *)
(* (core/import_pipeline.py), the body extraction and the final text       *)
(* (core/gcode_processor.py, core/lume_runtime.py), and the main window    *)
(* (app/main_window.py) with its simulation stepper, job selection,        *)
(* editor (app/gcode_editor.py), project tree (app/project_tree.py) and    *)
(* the camera and segment pick of the viewer (app/viewer.py).              *)
(*                                                                         *)
(* Conventions.                                                            *)
(*  - A text is a sequence of one-character strings.                       *)
(*  - Python's Optional[T] is a sequence of length 0 (None) or 1.          *)
(*  - Python indices are kept 0-based where the code stores them           *)
(*    (statement indices, segment indices, the simulation cursor);         *)
(*    TLA+ sequences are 1-based, so element i of a Python list is         *)
(*    seq[i + 1].                                                          *)
(*  - A job object is named by its position in Project.jobs: jobs are     *)
(*    only appended, and the list is replaced as a whole by a new         *)
(*    project, which also drops every reference to the old jobs.           *)
(*    The fields name, path, id, visible, color, movements and vertices    *)
(*    of a job are not modelled.                                           *)
(*  - An operation of the main window is modelled as a whole: the Qt       *)
(*    event loop runs one handler at a time.  Handlers are operations      *)
(*    that can be invoked in every state; the enabled flags of the         *)
(*    buttons and menu entries are not modelled.                           *)
(*  - A float is an integer number of hundredths.  Every number the        *)
(*    inputs carry has at most two decimals that are exact in binary       *)
(*    (.0, .25, .5, .75), so sums and comparisons of the modelled values   *)
(*    agree with the IEEE doubles of the program.                          *)
(***************************************************************************)
EXTENDS Integers, Sequences, FiniteSets, TLC

VARIABLES
    \* ---- pure-function harness (SpecParse, SpecGeom)
    in_text,        \* the text handed to the function under test
    in_max_angle,   \* arc_subdiv_max_angle_deg handed to build_geometry_and_index
    in_offsets,     \* <<offset_x, offset_y, offset_z>> of the job handed to build_final_gcode
    out,            \* the result: statements, raised, geom (the builder's locals)
    phase,          \* "input" | "parsed" | "built"
    next_stmt,      \* the 0-based statement index the builder's loop is at
    source_builds,  \* _build_for_source of each text of the application,
                    \*   evaluated once at the start (never changes)
    \* ---- the application (Spec, SpecLive)
    project_jobs,             \* Project.jobs: the job objects, in order
    current_job,              \* MainWindow.current_job: None or Some(j), the j-th job of project_jobs
    tree_selection,           \* the selected item of the project tree: -1 nothing,
                              \*   0 an item that is no job, j >= 1 the item of the j-th job
    sim_state,                \* MainWindow._sim_state: "idle" | "running" | "paused"
    sim_job,                  \* MainWindow._sim_job
    sim_current_stmt_index,   \* MainWindow._sim_current_stmt_index
    timer_active,             \* MainWindow.sim_timer is running
    head_marker,              \* GCodeViewer._head_marker: None or Some(position)
    highlight,                \* GCodeViewer._highlight_item: None or Some(the segments drawn)
    status_message,           \* the message the status bar shows
    dialog,                   \* the message box shown last ("" before the first)
    tick_stmt_index,          \* the stmt_index handed to update_simulation_head
                              \*   last (-1 before the first)
    editor_text,              \* the document of the G-code editor
    editor_pos,               \* the position of the editor's text cursor: the number
                              \*   of characters before it
    camera,                   \* the camera of the viewer: "top" after set_top_view,
                              \*   "orbit" as constructed and after a drag
    run_ticks                 \* ticks received by the current run since its fresh start,
                              \*   -1 once the run was paused or its job reparsed

pvars == <<in_text, in_max_angle, in_offsets, out, phase, next_stmt, source_builds>>

avars == <<project_jobs, current_job, tree_selection, sim_state, sim_job,
           sim_current_stmt_index, timer_active, head_marker, highlight,
           status_message, dialog, tick_stmt_index, editor_text, editor_pos,
           camera, run_ticks>>

vars == <<pvars, avars>>

-----------------------------------------------------------------------------
(* Characters and Python's str helpers                                     *)

LF == "\n"
CR == "\r"
TAB == "\t"
SP == " "

\* str.isspace() on the characters of the model's alphabet
IsSpace(c) == c \in {SP, TAB, LF, CR}

\* the line boundaries str.splitlines() knows, among the model's alphabet
IsLineBreak(c) == c \in {LF, CR}

Digits == {"0", "1", "2", "3", "4", "5", "6", "7", "8", "9"}

DigitVal(c) ==
    CASE c = "0" -> 0 [] c = "1" -> 1 [] c = "2" -> 2 [] c = "3" -> 3
      [] c = "4" -> 4 [] c = "5" -> 5 [] c = "6" -> 6 [] c = "7" -> 7
      [] c = "8" -> 8 [] c = "9" -> 9

\* str.upper() on one character of the model's alphabet
UpperChar(c) ==
    CASE c = "g" -> "G" [] c = "m" -> "M" [] c = "x" -> "X" [] c = "y" -> "Y"
      [] c = "z" -> "Z" [] c = "i" -> "I" [] c = "j" -> "J" [] c = "s" -> "S"
      [] c = "n" -> "N" [] c = "a" -> "A"
      [] OTHER -> c

Upper(s) == [k \in 1..Len(s) |-> UpperChar(s[k])]

\* s[:n] and s[n:] for 0 <= n
Prefix(s, n) == SubSeq(s, 1, n)
Suffix(s, n) == SubSeq(s, n + 1, Len(s))

\* str.find(c): the 0-based index of the first occurrence, -1 if none
Find(s, c) ==
    IF \E k \in 1..Len(s) : s[k] = c
    THEN (CHOOSE k \in 1..Len(s) : s[k] = c /\ \A h \in 1..(k - 1) : s[h] # c) - 1
    ELSE -1

\* str.strip()
Strip(s) ==
    LET keep == {k \in 1..Len(s) : ~IsSpace(s[k])}
    IN  IF keep = {} THEN <<>>
        ELSE LET lo == CHOOSE k \in keep : \A h \in keep : k <= h
                 hi == CHOOSE k \in keep : \A h \in keep : h <= k
             IN  SubSeq(s, lo, hi)

RECURSIVE SplitFrom(_, _, _, _)
SplitFrom(s, k, cur, acc) ==
    IF k > Len(s)
    THEN IF cur = <<>> THEN acc ELSE Append(acc, cur)
    ELSE IF IsSpace(s[k])
         THEN SplitFrom(s, k + 1, <<>>, IF cur = <<>> THEN acc ELSE Append(acc, cur))
         ELSE SplitFrom(s, k + 1, Append(cur, s[k]), acc)

\* str.split() with no argument: the maximal runs of non-space characters
Split(s) == SplitFrom(s, 1, <<>>, <<>>)

\* the position of the first line break of s at or after k, Len(s) + 1 if none
NextBreak(s, k) ==
    LET breaks == {i \in k..Len(s) : IsLineBreak(s[i])}
    IN  IF breaks = {} THEN Len(s) + 1
        ELSE CHOOSE i \in breaks : \A h \in breaks : i <= h

\* the lines of s from position k on; "\r\n" is one line break
RECURSIVE SplitLinesFrom(_, _, _)
SplitLinesFrom(s, k, acc) ==
    IF k > Len(s) THEN acc
    ELSE LET b == NextBreak(s, k)
             line == SubSeq(s, k, b - 1)
             crlf == b < Len(s) /\ s[b] = CR /\ s[b + 1] = LF
         IN  IF b > Len(s) THEN Append(acc, line)
             ELSE SplitLinesFrom(s, IF crlf THEN b + 2 ELSE b + 1, Append(acc, line))

\* str.splitlines(): a trailing line break opens no further line
SplitLines(s) == SplitLinesFrom(s, 1, <<>>)

RECURSIVE Concat(_)
Concat(ss) == IF ss = <<>> THEN <<>> ELSE Head(ss) \o Concat(Tail(ss))

-----------------------------------------------------------------------------
(* float(): the literals Python accepts among the model's alphabet:        *)
(* decimal literals (digits, sign, decimal point) and "nan" in any case.   *)
(* The alphabet holds no exponent letter, no underscore and not the        *)
(* letters of "inf".                                                       *)

AllDigits(s) == \A k \in 1..Len(s) : s[k] \in Digits

Unsigned(s) == IF s # <<>> /\ s[1] \in {"+", "-"} THEN Tail(s) ELSE s

IsNanLiteral(rest) == Upper(Unsigned(rest)) = <<"N", "A", "N">>

IsFloat(rest) ==
    LET u == Unsigned(rest)
        dot == Find(u, ".")
    IN  /\ u # <<>>
        /\ \/ IsNanLiteral(rest)
           \/ IF dot = -1
              THEN AllDigits(u)
              ELSE /\ AllDigits(Prefix(u, dot))
                   /\ AllDigits(Suffix(u, dot + 1))
                   /\ Len(u) > 1

\* float("nan"): not a number of hundredths
NaN == -2000000000
IsNaN(v) == v = NaN

\* float("-0"): the negative zero, which compares equal to zero
NegZero == -1000000000

\* the number a float stands for
Val(v) == IF v = NegZero THEN 0 ELSE v

\* a + b of two floats: a zero sum is +0 unless both terms are -0
FAdd(a, b) == IF a = NegZero /\ b = NegZero THEN NegZero ELSE Val(a) + Val(b)

\* a - b of two floats: a zero difference is +0 unless it is (-0) - (+0)
FSub(a, b) == IF a = NegZero /\ b = 0 THEN NegZero ELSE Val(a) - Val(b)

\* (ax, ay, az) == (bx, by, bz) of two tuples of floats
SamePoint(p, q) == \A i \in 1..3 : Val(p[i]) = Val(q[i])

RECURSIVE DecValue(_)
DecValue(ds) ==
    IF ds = <<>> THEN 0 ELSE 10 * DecValue(SubSeq(ds, 1, Len(ds) - 1)) + DigitVal(ds[Len(ds)])

\* the value of a literal with at most two decimals, in hundredths
FloatValue(rest) ==
    IF IsNanLiteral(rest) THEN NaN ELSE
    LET u == Unsigned(rest)
        dot == Find(u, ".")
        ip == IF dot = -1 THEN u ELSE Prefix(u, dot)
        fp == IF dot = -1 THEN <<>> ELSE Suffix(u, dot + 1)
        f2 == IF Len(fp) = 0 THEN 0
              ELSE IF Len(fp) = 1 THEN 10 * DigitVal(fp[1])
              ELSE 10 * DigitVal(fp[1]) + DigitVal(fp[2])
        mag == 100 * DecValue(ip) + f2
    IN  IF rest[1] = "-" THEN (IF mag = 0 THEN NegZero ELSE 0 - mag) ELSE mag

-----------------------------------------------------------------------------
(* core/gcode_parser.py                                                    *)

None == <<>>
Some(v) == <<v>>

\* the value of a local variable: the one element of a one-element set
Only(S) == CHOOSE v \in S : TRUE

NoParams == [k \in {} |-> 0]

\* params[letter] = value
DictSet(d, k, v) == [h \in (DOMAIN d) \cup {k} |-> IF h = k THEN v ELSE d[h]]

\* float(rest): the value, or the ValueError it raises
PyFloat(rest) ==
    IF IsFloat(rest) THEN [raised |-> None, value |-> FloatValue(rest)]
    ELSE [raised |-> Some("ValueError"), value |-> 0]

\* TokenStep without the except clause: the ValueError leaves the loop
TokenStep_NoExcept(acc, tok) ==
    IF acc.raised # None THEN acc
    ELSE IF tok = <<>> THEN acc
    ELSE LET letter == UpperChar(tok[1])
             rest == Tail(tok)
         IN  IF rest = <<>> THEN acc
             ELSE LET f == PyFloat(rest)
                  IN  IF f.raised # None THEN [acc EXCEPT !.raised = f.raised]
                      ELSE IF letter \in {"G", "M"} /\ acc.command = <<>>
                           THEN [acc EXCEPT !.command = <<letter>> \o rest]
                           ELSE [acc EXCEPT !.params = DictSet(acc.params, letter, f.value)]

\* TokenStep that keeps the first value of a letter that occurs again
TokenStep_FirstWins(acc, tok) ==
    IF acc.raised # None THEN acc
    ELSE IF tok = <<>> THEN acc
    ELSE LET letter == UpperChar(tok[1])
             rest == Tail(tok)
         IN  IF rest = <<>> THEN acc
             ELSE LET f == PyFloat(rest)
                      is_number == f.raised = None
                  IN  IF is_number
                      THEN IF letter \in {"G", "M"} /\ acc.command = <<>>
                           THEN [acc EXCEPT !.command = <<letter>> \o rest]
                           ELSE IF letter \in DOMAIN acc.params THEN acc
                           ELSE [acc EXCEPT !.params = DictSet(acc.params, letter, f.value)]
                      ELSE acc

\* TokenStep where every numeric G/M word becomes the command
TokenStep_LastCommand(acc, tok) ==
    IF acc.raised # None THEN acc
    ELSE IF tok = <<>> THEN acc
    ELSE LET letter == UpperChar(tok[1])
             rest == Tail(tok)
         IN  IF rest = <<>> THEN acc
             ELSE LET f == PyFloat(rest)
                      is_number == f.raised = None
                  IN  IF is_number
                      THEN IF letter \in {"G", "M"}
                           THEN [acc EXCEPT !.command = <<letter>> \o rest]
                           ELSE [acc EXCEPT !.params = DictSet(acc.params, letter, f.value)]
                      ELSE acc

\* One pass of the loop "for tok in tokens" on (command, params); raised
\* carries an exception that leaves the loop.
TokenStep(acc, tok) ==
    IF acc.raised # None THEN acc
    ELSE IF tok = <<>> THEN acc                       \* if not tok: continue
    ELSE LET letter == UpperChar(tok[1])
             rest == Tail(tok)
         IN  IF rest = <<>> THEN acc                  \* if not rest: continue
             ELSE LET f == PyFloat(rest)
                      is_number == f.raised = None    \* except ValueError
                  IN  IF is_number
                      THEN IF letter \in {"G", "M"} /\ acc.command = <<>>
                           THEN [acc EXCEPT !.command = <<letter>> \o rest]
                           ELSE [acc EXCEPT !.params = DictSet(acc.params, letter, f.value)]
                      ELSE acc

RECURSIVE TokenLoop(_, _)
TokenLoop(acc, tokens) ==
    IF tokens = <<>> THEN acc ELSE TokenLoop(TokenStep(acc, Head(tokens)), Tail(tokens))

\* the comment split of one line: [code_part, comment]
SplitComment(raw) ==
    LET semi_idx == Find(raw, ";")
        comment1 == IF semi_idx # -1 THEN Some(Strip(Suffix(raw, semi_idx + 1))) ELSE None
        code1 == IF semi_idx # -1 THEN Prefix(raw, semi_idx) ELSE raw
        paren_idx == Find(code1, "(")
        trailing == IF paren_idx # -1 THEN Strip(Suffix(code1, paren_idx + 1)) ELSE <<>>
        comment2 == IF paren_idx # -1 /\ trailing # <<>>
                    THEN IF comment1 = None THEN Some(trailing)
                         ELSE Some(comment1[1] \o <<SP, "(">> \o trailing \o <<")">>)
                    ELSE comment1
        code2 == IF paren_idx # -1 THEN Prefix(code1, paren_idx) ELSE code1
    IN  [code_part |-> Strip(code2), comment |-> comment2]

\* the body of the loop "for line_number, line in enumerate(lines, start=1)":
\* the statement of the line and the exception, if any, that left the body
ParseLine(line_number, line) ==
    LET raw == line
        sc == SplitComment(raw)
        res == TokenLoop([command |-> <<>>, params |-> NoParams, raised |-> None],
                         Split(sc.code_part))
    IN  [stmt |-> [line_number |-> line_number,
                   raw |-> raw,
                   command |-> res.command,
                   params |-> res.params,
                   comment |-> sc.comment],
         raised |-> res.raised]

\* ParseLoop dropping the lines that hold nothing but spaces
RECURSIVE ParseLoop_SkipBlank(_, _, _)
ParseLoop_SkipBlank(lines, line_number, statements) ==
    IF line_number > Len(lines) THEN [statements |-> statements, raised |-> None]
    ELSE LET r == ParseLine(line_number, lines[line_number])
         IN  IF r.raised # None THEN [statements |-> statements, raised |-> r.raised]
             ELSE IF Strip(lines[line_number]) = <<>>
                  THEN ParseLoop_SkipBlank(lines, line_number + 1, statements)
                  ELSE ParseLoop_SkipBlank(lines, line_number + 1, Append(statements, r.stmt))

\* the loop over enumerate(lines, start=1): statements.append(stmt)
RECURSIVE ParseLoop(_, _, _)
ParseLoop(lines, line_number, statements) ==
    IF line_number > Len(lines) THEN [statements |-> statements, raised |-> None]
    ELSE LET r == ParseLine(line_number, lines[line_number])
         IN  IF r.raised # None THEN [statements |-> statements, raised |-> r.raised]
             ELSE ParseLoop(lines, line_number + 1, Append(statements, r.stmt))

\* parse_gcode(source): [statements, raised]; raised = None is a normal return
parse_gcode(source) == ParseLoop(SplitLines(source), 1, <<>>)

-----------------------------------------------------------------------------
(* math: the functions build_geometry_and_index calls, on the model's      *)
(* numbers.  Lengths and coordinates are hundredths; angles are whole      *)
(* degrees.  atan2 is given for the vectors that lie on an axis, which is  *)
(* what the arcs of the geometry harness are made of; cos and sin come     *)
(* from a table of four decimals, and a product is rounded to the nearest  *)
(* hundredth, so two points equal in the model are within 0.01 of each     *)
(* other in the program.                                                   *)

Abs(a) == IF a < 0 THEN 0 - a ELSE a
Max(a, b) == IF a >= b THEN a ELSE b
Min(a, b) == IF a <= b THEN a ELSE b

\* math.ceil(a / b) for a >= 0, b > 0
CeilDiv(a, b) == (a + b - 1) \div b

\* a / b rounded to the nearest integer, for b > 0
RoundDiv(a, b) == (2 * a + b) \div (2 * b)

OnAxis(dx, dy) == dx = 0 \/ dy = 0

\* math.hypot(dx, dy) of a vector on an axis
Hypot(dx, dy) == Abs(Val(dx)) + Abs(Val(dy))

\* math.atan2(dy, dx) of a vector on an axis, in degrees: [-180, 180];
\* a zero dy gives 0 or 180 by the sign of dx, with the sign of dy
\* (atan2(-0.0, -1.0) is -pi)
Atan2Deg(dy, dx) ==
    IF Val(dy) = 0
    THEN IF Val(dx) > 0 \/ dx = 0 THEN 0
         ELSE IF dy = NegZero THEN 0 - 180 ELSE 180
    ELSE IF dy > 0 THEN 90 ELSE 0 - 90

\* 10000 * cos(d degrees), d in 0..90
CosTable ==
    << 10000, 9998, 9994, 9986, 9976, 9962, 9945, 9925, 9903, 9877, 9848, 9816, 9781,
       9744, 9703, 9659, 9613, 9563, 9511, 9455, 9397, 9336, 9272, 9205, 9135, 9063,
       8988, 8910, 8829, 8746, 8660, 8572, 8480, 8387, 8290, 8192, 8090, 7986, 7880,
       7771, 7660, 7547, 7431, 7314, 7193, 7071, 6947, 6820, 6691, 6561, 6428, 6293,
       6157, 6018, 5878, 5736, 5592, 5446, 5299, 5150, 5000, 4848, 4695, 4540, 4384,
       4226, 4067, 3907, 3746, 3584, 3420, 3256, 3090, 2924, 2756, 2588, 2419, 2250,
       2079, 1908, 1736, 1564, 1392, 1219, 1045, 872, 698, 523, 349, 175, 0 >>

\* 10000 * math.cos of a whole number of degrees
CosDeg(d) ==
    LET a == d % 360
    IN  IF a <= 90 THEN CosTable[a + 1]
        ELSE IF a <= 180 THEN 0 - CosTable[180 - a + 1]
        ELSE IF a <= 270 THEN 0 - CosTable[a - 180 + 1]
        ELSE CosTable[360 - a + 1]

\* 10000 * math.sin of a whole number of degrees
SinDeg(d) == CosDeg(d - 90)

-----------------------------------------------------------------------------
(* core/geometry_builder.py                                                *)

G90 == <<"G", "9", "0">>
G91 == <<"G", "9", "1">>
LinearCmds == { <<"G", "0">>, <<"G", "0", "0">>, <<"G", "1">>, <<"G", "0", "1">> }
CwCmds == { <<"G", "2">>, <<"G", "0", "2">> }
CcwCmds == { <<"G", "3">>, <<"G", "0", "3">> }
ArcCmds == CwCmds \cup CcwCmds

\* params.get(key, default)
DictGet(d, k, default) == IF k \in DOMAIN d THEN d[k] ELSE default

\* SetDefaultAppend that puts the new index in front of the list
SetDefaultAppend_Prepend(d, k, v) == DictSet(d, k, <<v>> \o DictGet(d, k, <<>>))

\* d.setdefault(k, []).append(v)
SetDefaultAppend(d, k, v) == DictSet(d, k, Append(DictGet(d, k, <<>>), v))

NoDict == [k \in {} |-> 0]

\* the locals of build_geometry_and_index before the loop
GeomStart ==
    [segments |-> <<>>, stmt_to_segs |-> NoDict, seg_to_stmt |-> NoDict,
     absolute |-> TRUE, x |-> 0, y |-> 0, z |-> 0, raised |-> None]

\* get_target(cur_x, cur_y, cur_z)
get_target(params, absolute, cur_x, cur_y, cur_z) ==
    LET tx == IF "X" \in DOMAIN params
              THEN (IF ~absolute THEN FAdd(cur_x, params["X"]) ELSE params["X"]) ELSE cur_x
        ty == IF "Y" \in DOMAIN params
              THEN (IF ~absolute THEN FAdd(cur_y, params["Y"]) ELSE params["Y"]) ELSE cur_y
        tz == IF "Z" \in DOMAIN params
              THEN (IF ~absolute THEN FAdd(cur_z, params["Z"]) ELSE params["Z"]) ELSE cur_z
    IN  <<tx, ty, tz>>

\* EmitSegment taking seg_index after the append (off by one)
EmitSegment_IndexAfterAppend(g, stmt_index, start, end) ==
    LET seg_index == Len(g.segments) + 1
    IN  [g EXCEPT !.segments = Append(g.segments, [start |-> start, end |-> end]),
                  !.stmt_to_segs = SetDefaultAppend(g.stmt_to_segs, stmt_index, seg_index),
                  !.seg_to_stmt = DictSet(g.seg_to_stmt, seg_index, stmt_index)]

\* segments.append(seg) with the two index entries of the segment
EmitSegment(g, stmt_index, start, end) ==
    LET seg_index == Len(g.segments)
    IN  [g EXCEPT !.segments = Append(g.segments, [start |-> start, end |-> end]),
                  !.stmt_to_segs = SetDefaultAppend(g.stmt_to_segs, stmt_index, seg_index),
                  !.seg_to_stmt = DictSet(g.seg_to_stmt, seg_index, stmt_index)]

\* LinearMove without the test (nx, ny, nz) != (x, y, z)
LinearMove_AlwaysEmit(g, stmt_index, params) ==
    LET t == get_target(params, g.absolute, g.x, g.y, g.z)
        g1 == EmitSegment(g, stmt_index, <<g.x, g.y, g.z>>, t)
    IN  [g1 EXCEPT !.x = t[1], !.y = t[2], !.z = t[3]]

\* LinearMove without the assignment x, y, z = nx, ny, nz
LinearMove_NoCursorUpdate(g, stmt_index, params) ==
    LET t == get_target(params, g.absolute, g.x, g.y, g.z)
    IN  IF ~SamePoint(t, <<g.x, g.y, g.z>>)
        THEN EmitSegment(g, stmt_index, <<g.x, g.y, g.z>>, t)
        ELSE g

\* the branch "if cmd in (G0, G00, G1, G01)"
LinearMove(g, stmt_index, params) ==
    LET t == get_target(params, g.absolute, g.x, g.y, g.z)
        g1 == IF ~SamePoint(t, <<g.x, g.y, g.z>>)
              THEN EmitSegment(g, stmt_index, <<g.x, g.y, g.z>>, t)
              ELSE g
    IN  [g1 EXCEPT !.x = t[1], !.y = t[2], !.z = t[3]]

\* the signed sweep and the step count of an arc from ang0 to ang1 (degrees)
ArcSweep(cw, ang0, ang1) ==
    LET a1 == IF cw THEN (IF ang1 >= ang0 THEN ang1 - 360 ELSE ang1)
              ELSE (IF ang1 <= ang0 THEN ang1 + 360 ELSE ang1)
    IN  a1 - ang0

\* ClampMaxAngle without the upper limit of 45 degrees
ClampMaxAngle_NoUpper(arc_subdiv_max_angle_deg) == Max(1, arc_subdiv_max_angle_deg)

\* math.radians(max(1.0, min(arc_subdiv_max_angle_deg, 45.0))), in degrees
ClampMaxAngle(arc_subdiv_max_angle_deg) == Max(1, Min(arc_subdiv_max_angle_deg, 45))

ArcSteps(sweep, arc_subdiv_max_angle_deg) ==
    Max(2, CeilDiv(Abs(sweep), ClampMaxAngle(arc_subdiv_max_angle_deg)))

\* the loop "for i in range(1, steps + 1)" of an arc: a.r2 is twice the radius
RECURSIVE ArcLoop(_, _, _, _, _)
ArcLoop(g, stmt_index, a, i, last) ==
    IF i > a.steps THEN g
    ELSE LET theta == a.ang0 + (a.sweep * i) \div a.steps
             px == a.cx + RoundDiv(a.r2 * CosDeg(theta), 20000)
             py == a.cy + RoundDiv(a.r2 * SinDeg(theta), 20000)
             pz == a.z + RoundDiv((a.nz - a.z) * i, a.steps)
         IN  ArcLoop(EmitSegment(g, stmt_index, last, <<px, py, pz>>),
                     stmt_index, a, i + 1, <<px, py, pz>>)

\* ArcMove that leaves the cursor on the last interpolated point
ArcMove_CursorOnLastPoint(g, stmt_index, cmd, params, arc_subdiv_max_angle_deg) ==
    LET t == get_target(params, g.absolute, g.x, g.y, g.z)
        nx == t[1]
        ny == t[2]
        nz == t[3]
        cw == cmd \in CwCmds
    IN  IF ("I" \notin DOMAIN params /\ "J" \notin DOMAIN params) \/ (Val(nx) = Val(g.x) /\ Val(ny) = Val(g.y))
        THEN \* fallback: treat as straight line
             [EmitSegment(g, stmt_index, <<g.x, g.y, g.z>>, t)
                  EXCEPT !.x = nx, !.y = ny, !.z = nz]
        ELSE IF IsNaN(DictGet(params, "I", 0)) \/ IsNaN(DictGet(params, "J", 0))
        THEN \* the centre, both angles and the sweep are NaN: math.ceil raises
             [g EXCEPT !.raised = Some("ValueError")]
        ELSE LET cx == FAdd(g.x, DictGet(params, "I", 0))
                 cy == FAdd(g.y, DictGet(params, "J", 0))
                 rs == Hypot(FSub(g.x, cx), FSub(g.y, cy))
                 re == Hypot(FSub(nx, cx), FSub(ny, cy))
                 r2 == IF rs > 0 /\ re > 0 THEN rs + re ELSE 2 * Max(rs, re)
                 ang0 == Atan2Deg(FSub(g.y, cy), FSub(g.x, cx))
                 ang1 == Atan2Deg(FSub(ny, cy), FSub(nx, cx))
                 sweep == ArcSweep(cw, ang0, ang1)
                 steps == ArcSteps(sweep, arc_subdiv_max_angle_deg)
                 a == [cx |-> Val(cx), cy |-> Val(cy), r2 |-> r2, ang0 |-> ang0,
                       sweep |-> sweep, steps |-> steps, z |-> Val(g.z), nz |-> Val(nz)]
                 g1 == ArcLoop(g, stmt_index, a, 1, <<g.x, g.y, g.z>>)
                 last == g1.segments[Len(g1.segments)].end
             IN  [g1 EXCEPT !.x = last[1], !.y = last[2], !.z = last[3]]

\* ArcMove that draws the arc with the radius of its start point
ArcMove_StartRadius(g, stmt_index, cmd, params, arc_subdiv_max_angle_deg) ==
    LET t == get_target(params, g.absolute, g.x, g.y, g.z)
        nx == t[1]
        ny == t[2]
        nz == t[3]
        cw == cmd \in CwCmds
    IN  IF ("I" \notin DOMAIN params /\ "J" \notin DOMAIN params) \/ (Val(nx) = Val(g.x) /\ Val(ny) = Val(g.y))
        THEN \* fallback: treat as straight line
             [EmitSegment(g, stmt_index, <<g.x, g.y, g.z>>, t)
                  EXCEPT !.x = nx, !.y = ny, !.z = nz]
        ELSE IF IsNaN(DictGet(params, "I", 0)) \/ IsNaN(DictGet(params, "J", 0))
        THEN \* the centre, both angles and the sweep are NaN: math.ceil raises
             [g EXCEPT !.raised = Some("ValueError")]
        ELSE LET cx == FAdd(g.x, DictGet(params, "I", 0))
                 cy == FAdd(g.y, DictGet(params, "J", 0))
                 rs == Hypot(FSub(g.x, cx), FSub(g.y, cy))
                 re == Hypot(FSub(nx, cx), FSub(ny, cy))
                 r2 == 2 * rs
                 ang0 == Atan2Deg(FSub(g.y, cy), FSub(g.x, cx))
                 ang1 == Atan2Deg(FSub(ny, cy), FSub(nx, cx))
                 sweep == ArcSweep(cw, ang0, ang1)
                 steps == ArcSteps(sweep, arc_subdiv_max_angle_deg)
                 a == [cx |-> Val(cx), cy |-> Val(cy), r2 |-> r2, ang0 |-> ang0,
                       sweep |-> sweep, steps |-> steps, z |-> Val(g.z), nz |-> Val(nz)]
                 g1 == ArcLoop(g, stmt_index, a, 1, <<g.x, g.y, g.z>>)
             IN  [g1 EXCEPT !.x = nx, !.y = ny, !.z = nz]

\* ArcMove that reads I and J as the absolute centre in absolute mode
ArcMove_AbsoluteCentre(g, stmt_index, cmd, params, arc_subdiv_max_angle_deg) ==
    LET t == get_target(params, g.absolute, g.x, g.y, g.z)
        nx == t[1]
        ny == t[2]
        nz == t[3]
        cw == cmd \in CwCmds
    IN  IF ("I" \notin DOMAIN params /\ "J" \notin DOMAIN params) \/ (Val(nx) = Val(g.x) /\ Val(ny) = Val(g.y))
        THEN \* fallback: treat as straight line
             [EmitSegment(g, stmt_index, <<g.x, g.y, g.z>>, t)
                  EXCEPT !.x = nx, !.y = ny, !.z = nz]
        ELSE IF IsNaN(DictGet(params, "I", 0)) \/ IsNaN(DictGet(params, "J", 0))
        THEN \* the centre, both angles and the sweep are NaN: math.ceil raises
             [g EXCEPT !.raised = Some("ValueError")]
        ELSE LET cx == IF g.absolute THEN DictGet(params, "I", 0) ELSE FAdd(g.x, DictGet(params, "I", 0))
                 cy == IF g.absolute THEN DictGet(params, "J", 0) ELSE FAdd(g.y, DictGet(params, "J", 0))
                 rs == Hypot(FSub(g.x, cx), FSub(g.y, cy))
                 re == Hypot(FSub(nx, cx), FSub(ny, cy))
                 r2 == IF rs > 0 /\ re > 0 THEN rs + re ELSE 2 * Max(rs, re)
                 ang0 == Atan2Deg(FSub(g.y, cy), FSub(g.x, cx))
                 ang1 == Atan2Deg(FSub(ny, cy), FSub(nx, cx))
                 sweep == ArcSweep(cw, ang0, ang1)
                 steps == ArcSteps(sweep, arc_subdiv_max_angle_deg)
                 a == [cx |-> Val(cx), cy |-> Val(cy), r2 |-> r2, ang0 |-> ang0,
                       sweep |-> sweep, steps |-> steps, z |-> Val(g.z), nz |-> Val(nz)]
                 g1 == ArcLoop(g, stmt_index, a, 1, <<g.x, g.y, g.z>>)
             IN  [g1 EXCEPT !.x = nx, !.y = ny, !.z = nz]

\* the branch "if cmd in (G2, G02, G3, G03)"
ArcMove(g, stmt_index, cmd, params, arc_subdiv_max_angle_deg) ==
    LET t == get_target(params, g.absolute, g.x, g.y, g.z)
        nx == t[1]
        ny == t[2]
        nz == t[3]
        cw == cmd \in CwCmds
    IN  IF ("I" \notin DOMAIN params /\ "J" \notin DOMAIN params) \/ (Val(nx) = Val(g.x) /\ Val(ny) = Val(g.y))
        THEN \* fallback: treat as straight line
             [EmitSegment(g, stmt_index, <<g.x, g.y, g.z>>, t)
                  EXCEPT !.x = nx, !.y = ny, !.z = nz]
        ELSE IF IsNaN(DictGet(params, "I", 0)) \/ IsNaN(DictGet(params, "J", 0))
        THEN \* the centre, both angles and the sweep are NaN: math.ceil raises
             [g EXCEPT !.raised = Some("ValueError")]
        ELSE LET cx == FAdd(g.x, DictGet(params, "I", 0))
                 cy == FAdd(g.y, DictGet(params, "J", 0))
                 rs == Hypot(FSub(g.x, cx), FSub(g.y, cy))
                 re == Hypot(FSub(nx, cx), FSub(ny, cy))
                 r2 == IF rs > 0 /\ re > 0 THEN rs + re ELSE 2 * Max(rs, re)
                 ang0 == Atan2Deg(FSub(g.y, cy), FSub(g.x, cx))
                 ang1 == Atan2Deg(FSub(ny, cy), FSub(nx, cx))
                 sweep == ArcSweep(cw, ang0, ang1)
                 steps == ArcSteps(sweep, arc_subdiv_max_angle_deg)
                 a == [cx |-> Val(cx), cy |-> Val(cy), r2 |-> r2, ang0 |-> ang0,
                       sweep |-> sweep, steps |-> steps, z |-> Val(g.z), nz |-> Val(nz)]
                 g1 == ArcLoop(g, stmt_index, a, 1, <<g.x, g.y, g.z>>)
             IN  [g1 EXCEPT !.x = nx, !.y = ny, !.z = nz]

\* StatementStep that reads G001 as a linear move
StatementStep_LooseSpelling(g, stmt_index, stmt, arc_subdiv_max_angle_deg) ==
    LET cmd == Upper(stmt.command)
        params == stmt.params
    IN  IF g.raised # None THEN g
        ELSE IF cmd = G90 THEN [g EXCEPT !.absolute = TRUE]
        ELSE IF cmd = G91 THEN [g EXCEPT !.absolute = FALSE]
        ELSE IF cmd \in LinearCmds \cup { <<"G", "0", "0", "1">> }
             THEN LinearMove(g, stmt_index, params)
        ELSE IF cmd \in ArcCmds
             THEN ArcMove(g, stmt_index, cmd, params, arc_subdiv_max_angle_deg)
        ELSE g

\* one pass of "for stmt_index, stmt in enumerate(program.statements)"
StatementStep(g, stmt_index, stmt, arc_subdiv_max_angle_deg) ==
    LET cmd == Upper(stmt.command)
        params == stmt.params
    IN  IF g.raised # None THEN g
        ELSE IF cmd = G90 THEN [g EXCEPT !.absolute = TRUE]
        ELSE IF cmd = G91 THEN [g EXCEPT !.absolute = FALSE]
        ELSE IF cmd \in LinearCmds THEN LinearMove(g, stmt_index, params)
        ELSE IF cmd \in ArcCmds
             THEN ArcMove(g, stmt_index, cmd, params, arc_subdiv_max_angle_deg)
        ELSE g

\* the loop over the statements, from 0-based stmt_index on
RECURSIVE GeomLoop(_, _, _, _)
GeomLoop(g, statements, stmt_index, arc_subdiv_max_angle_deg) ==
    IF stmt_index >= Len(statements) THEN g
    ELSE GeomLoop(StatementStep(g, stmt_index, statements[stmt_index + 1],
                                arc_subdiv_max_angle_deg),
                  statements, stmt_index + 1, arc_subdiv_max_angle_deg)

DefaultMaxAngle == 10

\* build_geometry_and_index(program, arc_subdiv_max_angle_deg=...):
\* geometry.segments, index.statement_to_segments, index.segment_to_statement
\* and the final modal state (cursor, absolute)
build_geometry_and_index(statements, arc_subdiv_max_angle_deg) ==
    GeomLoop(GeomStart, statements, 0, arc_subdiv_max_angle_deg)

\* the modal state (absolute, x, y, z) after one statement
ModalStep(m, stmt) ==
    LET cmd == Upper(stmt.command)
        t == get_target(stmt.params, m.absolute, m.x, m.y, m.z)
    IN  IF cmd = G90 THEN [m EXCEPT !.absolute = TRUE]
        ELSE IF cmd = G91 THEN [m EXCEPT !.absolute = FALSE]
        ELSE IF cmd \in LinearCmds \cup ArcCmds
             THEN [m EXCEPT !.x = t[1], !.y = t[2], !.z = t[3]]
        ELSE m

\* True when the statement is one the model's math covers: NaN occurs only
\* as the I or J of an arc, and an arc that is interpolated has its start and
\* its target on an axis through the centre
StatementCovered(m, stmt) ==
    LET cmd == Upper(stmt.command)
        t == get_target(stmt.params, m.absolute, m.x, m.y, m.z)
        cx == FAdd(m.x, DictGet(stmt.params, "I", 0))
        cy == FAdd(m.y, DictGet(stmt.params, "J", 0))
        interpolated == /\ cmd \in ArcCmds
                        /\ ~("I" \notin DOMAIN stmt.params /\ "J" \notin DOMAIN stmt.params)
                        /\ ~(Val(t[1]) = Val(m.x) /\ Val(t[2]) = Val(m.y))
        nanIJ == IsNaN(DictGet(stmt.params, "I", 0)) \/ IsNaN(DictGet(stmt.params, "J", 0))
    IN  /\ \A k \in DOMAIN stmt.params :
              IsNaN(stmt.params[k]) => k \in {"I", "J"} /\ cmd \in ArcCmds
        /\ (interpolated /\ ~nanIJ) => /\ OnAxis(Val(m.x) - Val(cx), Val(m.y) - Val(cy))
                                       /\ OnAxis(Val(t[1]) - Val(cx), Val(t[2]) - Val(cy))

RECURSIVE ArcsOnAxisFrom(_, _, _)
ArcsOnAxisFrom(m, statements, n) ==
    IF n > Len(statements) THEN TRUE
    ELSE /\ StatementCovered(m, statements[n])
         /\ ArcsOnAxisFrom(ModalStep(m, statements[n]), statements, n + 1)

\* True when the model's math covers every statement of the program
ArcsOnAxis(statements) ==
    ArcsOnAxisFrom([absolute |-> TRUE, x |-> 0, y |-> 0, z |-> 0], statements, 1)

-----------------------------------------------------------------------------
(* The texts of the application's files and editor: the empty text, the    *)
(* two moves of Scenario A, an arc that the builder fails on, and a        *)
(* program of MaxProgram lines, relative moves and blank lines.            *)

MaxProgram == 14

ScenarioA == <<"G", "1", SP, "X", "1", "0", SP, "Y", "0", LF, "G", "1", SP, "X", "1", "0", SP, "Y", "1", "0", LF>>

\* n lines: "G1 X1", "G91", then in turn "G1 X1" and a blank line
LongText(n) ==
    <<"G", "1", SP, "X", "1", LF>> \o <<"G", "9", "1", LF>>
        \o Concat([k \in 1..(n - 2) |->
                      IF k % 2 = 0 THEN <<"G", "1", SP, "X", "1", LF>> ELSE <<LF>>])

NanArcText == <<"G", "2", SP, "X", "1", "0", SP, "I", "n", "a", "n", LF>>

AppTexts ==
    { <<>>, ScenarioA, NanArcText, LongText(MaxProgram) }

-----------------------------------------------------------------------------
(* The import pipeline (core/import_pipeline.py).                          *)

\* the body of _build_for_source: program, geometry, index, or the exception
BuildForSource(source) ==
    Only({Only({[raised |-> IF program.raised # None THEN program.raised ELSE g.raised,
                 program |-> program.statements,
                 geometry |-> g.segments,
                 index |-> [statement_to_segments |-> g.stmt_to_segs,
                            segment_to_statement |-> g.seg_to_stmt]] :
                g \in {build_geometry_and_index(program.statements, DefaultMaxAngle)}}) :
          program \in {parse_gcode(source)}})

\* the results for the texts of the application
AppBuilds == [source \in AppTexts |-> BuildForSource(source)]

\* _build_for_source(source), source being a text of the application
_build_for_source(source) == source_builds[source]

\* a file that cannot be read (path.read_text raises)
Unreadable == None

\* import_gcode_file(path): file is the content of the file at path, or
\* Unreadable; the result is the new job, or the exception
import_gcode_file(file) ==
    IF file = Unreadable THEN [raised |-> Some("OSError"), job |-> None]
    ELSE LET source == file[1]
             b == _build_for_source(source)
         IN  IF b.raised # None THEN [raised |-> b.raised, job |-> None]
             ELSE [raised |-> None,
                   job |-> Some([original_source |-> source,
                                 program |-> b.program,
                                 geometry |-> b.geometry,
                                 program_index |-> b.index])]

\* reparse_job that keeps the old program_index
reparse_job_KeepIndex(job, new_source) ==
    LET b == _build_for_source(new_source)
    IN  IF b.raised # None THEN [raised |-> b.raised, job |-> job]
        ELSE [raised |-> None,
              job |-> [job EXCEPT !.original_source = new_source,
                                  !.program = b.program,
                                  !.geometry = b.geometry]]

\* reparse_job that stores the source before it builds
reparse_job_SourceFirst(job, new_source) ==
    LET b == _build_for_source(new_source)
    IN  IF b.raised # None
        THEN [raised |-> b.raised, job |-> [job EXCEPT !.original_source = new_source]]
        ELSE [raised |-> None,
              job |-> [job EXCEPT !.original_source = new_source,
                                  !.program = b.program,
                                  !.geometry = b.geometry,
                                  !.program_index = b.index]]

\* reparse_job(job, new_source): the job object after the call, and the
\* exception if the call raised
reparse_job(job, new_source) ==
    LET b == _build_for_source(new_source)
    IN  IF b.raised # None THEN [raised |-> b.raised, job |-> job]
        ELSE [raised |-> None,
              job |-> [job EXCEPT !.original_source = new_source,
                                  !.program = b.program,
                                  !.geometry = b.geometry,
                                  !.program_index = b.index]]

-----------------------------------------------------------------------------
(* core/gcode_processor.py and core/lume_runtime.py                        *)

\* line.split(";", 1)[0]
_strip_inline_comment(line) ==
    IF Find(line, ";") = -1 THEN line ELSE Prefix(line, Find(line, ";"))

\* s.startswith("(") and s.endswith(")") of the stripped line
_is_full_line_comment(line) ==
    LET s == Strip(line)
    IN  s # <<>> /\ s[1] = "(" /\ s[Len(s)] = ")"

\* True when a token of the line is S followed by a digit, a sign or a point
_has_spindle_s(line) ==
    LET code == Strip(_strip_inline_comment(line))
        tokens == Split(code)
    IN  /\ ~_is_full_line_comment(line)
        /\ code # <<>>
        /\ \E k \in 1..Len(tokens) :
               /\ tokens[k][1] = "S"
               /\ Len(tokens[k]) > 1
               /\ tokens[k][2] \in Digits \cup {"+", "-", "."}

\* _has_m5 that takes only a line that is M5 or M05 as a whole
_has_m5_WholeLine(line) ==
    LET code == Upper(Strip(_strip_inline_comment(line)))
    IN  /\ ~_is_full_line_comment(line)
        /\ code \in { <<"M", "5">>, <<"M", "0", "5">> }

\* True when a token of the upper-cased line is M5 or M05
_has_m5(line) ==
    LET code == Upper(Strip(_strip_inline_comment(line)))
        tokens == Split(code)
    IN  /\ ~_is_full_line_comment(line)
        /\ code # <<>>
        /\ \E k \in 1..Len(tokens) : tokens[k] \in { <<"M", "5">>, <<"M", "0", "5">> }

\* "while body and not body[-1].strip(): body.pop()"
RECURSIVE PopBlankLines(_)
PopBlankLines(body) ==
    IF body # <<>> /\ Strip(body[Len(body)]) = <<>>
    THEN PopBlankLines(SubSeq(body, 1, Len(body) - 1))
    ELSE body

\* the 0-based index of the first line with an S word, -1 if there is none
HeaderEnd(lines) ==
    LET withS == {i \in 0..(Len(lines) - 1) : _has_spindle_s(lines[i + 1])}
    IN  IF withS = {} THEN -1 ELSE CHOOSE i \in withS : \A h \in withS : i <= h

\* the 0-based index of the last line with M5 or M05, len(lines) if none
LastM5(lines) ==
    LET withM5 == {i \in 0..(Len(lines) - 1) : _has_m5(lines[i + 1])}
    IN  IF withM5 = {} THEN Len(lines) ELSE CHOOSE i \in withM5 : \A h \in withM5 : h <= i

\* BodyBetween that keeps the trailing blank lines
BodyBetween_KeepBlank(lines, header_end, last_m5) ==
    LET body_start == IF header_end = -1 THEN 0 ELSE header_end + 1
        footer_start == IF last_m5 < body_start THEN Len(lines) ELSE last_m5
    IN  SubSeq(lines, body_start + 1, footer_start)

\* BodyBetween that keeps the header when the footer starts before it ends
BodyBetween_KeepHeader(lines, header_end, last_m5) ==
    LET body_start == IF header_end = -1 THEN 0 ELSE header_end + 1
        footer_start == IF last_m5 < body_start THEN Len(lines) ELSE last_m5
    IN  PopBlankLines(SubSeq(lines, IF last_m5 < body_start THEN 1 ELSE body_start + 1,
                             footer_start))

\* lines[body_start:footer_start] without its trailing blank lines
BodyBetween(lines, header_end, last_m5) ==
    LET body_start == IF header_end = -1 THEN 0 ELSE header_end + 1
        footer_start == IF last_m5 < body_start THEN Len(lines) ELSE last_m5
    IN  PopBlankLines(SubSeq(lines, body_start + 1, footer_start))

\* BodyOrLines without the fallback to the original lines
BodyOrLines_NoFallback(body, lines) == body

\* "return body or lines"
BodyOrLines(body, lines) == IF body # <<>> THEN body ELSE lines

\* extract_body on the lines of the source
ExtractBodyLines(lines) ==
    BodyOrLines(BodyBetween(lines, HeaderEnd(lines), LastM5(lines)), lines)

\* extract_body(source): the lines of the body
extract_body(source) == ExtractBodyLines(SplitLines(source))

\* "\n".join(lines)
RECURSIVE JoinLines(_)
JoinLines(lines) ==
    IF lines = <<>> THEN <<>>
    ELSE IF Len(lines) = 1 THEN lines[1]
    ELSE lines[1] \o <<LF>> \o JoinLines(Tail(lines))

\* part.rstrip("\n")
RECURSIVE RStripLF(_)
RStripLF(s) ==
    IF s # <<>> /\ s[Len(s)] = LF THEN RStripLF(SubSeq(s, 1, Len(s) - 1)) ELSE s

DigitChar(d) ==
    CASE d = 0 -> "0" [] d = 1 -> "1" [] d = 2 -> "2" [] d = 3 -> "3" [] d = 4 -> "4"
      [] d = 5 -> "5" [] d = 6 -> "6" [] d = 7 -> "7" [] d = 8 -> "8" [] d = 9 -> "9"

\* the decimal digits of n >= 0
RECURSIVE IntDigits(_)
IntDigits(n) ==
    IF n < 10 THEN <<DigitChar(n)>> ELSE Append(IntDigits(n \div 10), DigitChar(n % 10))

\* "{:.2f}".format(v), v in hundredths
Format2f(v) ==
    (IF v < 0 THEN <<"-">> ELSE <<>>)
        \o IntDigits(Abs(v) \div 100)
        \o <<".", DigitChar((Abs(v) % 100) \div 10), DigitChar(Abs(v) % 10)>>

\* HEADER_TEMPLATE.format(offset_x=..., offset_y=..., offset_z=...)
HEADER_TEMPLATE(offset_x, offset_y, offset_z) ==
    <<"G", "5", "3", LF>>
        \o <<"G", "0", SP, "Z", "0", LF>>
        \o <<"G", "0", SP, "X", "0", SP, "Y", "0", LF>>
        \o <<"G", "9", "2", SP, "X">> \o Format2f(offset_x)
        \o <<SP, "Y">> \o Format2f(offset_y)
        \o <<SP, "Z">> \o Format2f(offset_z) \o <<LF>>
        \o <<"G", "5", "4", LF>>
        \o <<"G", "0", SP, "Z", "5", ".", "0", LF>>
        \o <<"S", "1", "3", "9", "0", "0", SP, "M", "3", LF>>
        \o <<"G", "4", SP, "P", "2", ".", "5", LF>>

FOOTER_TEMPLATE ==
    <<"G", "5", "3", LF>> \o <<"G", "0", SP, "Z", "0", LF>> \o <<"M", "5", LF>>

\* build_final_gcode(job) reads job.offset_x, job.offset_y and job.offset_z
build_final_gcode_raises(job) ==
    ~({"offset_x", "offset_y", "offset_z"} \subseteq DOMAIN job)

\* build_final_gcode(job), job carrying its three offsets: the text
build_final_gcode(job) ==
    LET body == JoinLines(extract_body(job.original_source))
        header == HEADER_TEMPLATE(job.offset_x, job.offset_y, job.offset_z)
        parts == <<header>> \o (IF body # <<>> THEN <<body>> ELSE <<>>) \o <<FOOTER_TEMPLATE>>
    IN  JoinLines([k \in 1..Len(parts) |-> RStripLF(parts[k])])

-----------------------------------------------------------------------------
(* The main window (app/main_window.py) with the project tree              *)
(* (app/project_tree.py) and the simulation helpers of the viewer          *)
(* (app/viewer.py).  A handler is an operator from the state of the        *)
(* window w before the call to its state after the call.                   *)

sim_interval_ms == 30
sim_lines_per_second == 400

\* MainWindow.__init__
WindowStart ==
    [project_jobs |-> <<>>, current_job |-> None, tree_selection |-> -1,
     sim_state |-> "idle", sim_job |-> None, sim_current_stmt_index |-> -1,
     timer_active |-> FALSE, head_marker |-> None, highlight |-> None,
     status_message |-> "", dialog |-> "", tick_stmt_index |-> -1,
     editor_text |-> <<>>, editor_pos |-> 0, camera |-> "orbit"]

\* GCodeViewer.reset_simulation_head
reset_simulation_head(w) == [w EXCEPT !.head_marker = None]

\* GCodeViewer.highlight_segments(job, segment_indices)
highlight_segments(window, job, segment_indices) ==
    Only({LET valid == SelectSeq(segment_indices,
                                 LAMBDA idx : 0 <= idx /\ idx < Len(job.geometry))
              pts == [k \in 1..Len(valid) |-> job.geometry[valid[k] + 1]]
          IN  IF segment_indices = <<>> \/ pts = <<>>
              THEN [w EXCEPT !.highlight = None]
              ELSE [w EXCEPT !.highlight = Some(pts)] :
          w \in {window}})

\* update_simulation_head that leaves the head marker where it is when the
\* statement has no segment
update_simulation_head_KeepHead(window, job, stmt_index) ==
    Only({LET seg_indices == DictGet(job.program_index.statement_to_segments, stmt_index, <<>>)
              w1 == highlight_segments(w, job, seg_indices)
          IN  IF seg_indices = <<>> THEN w1
              ELSE [w1 EXCEPT !.head_marker =
                                  Some(job.geometry[seg_indices[Len(seg_indices)] + 1].end)] :
          w \in {window}})

\* GCodeViewer.update_simulation_head(job, stmt_index)
update_simulation_head(window, job, stmt_index) ==
    Only({LET seg_indices == DictGet(job.program_index.statement_to_segments, stmt_index, <<>>)
              w1 == highlight_segments(w, job, seg_indices)
          IN  IF seg_indices = <<>> THEN reset_simulation_head(w1)
              ELSE LET last_idx == seg_indices[Len(seg_indices)]
                   IN  IF ~(0 <= last_idx /\ last_idx < Len(job.geometry))
                       THEN reset_simulation_head(w1)
                       ELSE [w1 EXCEPT !.head_marker = Some(job.geometry[last_idx + 1].end)] :
          w \in {window}})

\* GCodeViewer.set_project: _rebuild_scene starts with _clear_jobs, which
\* removes the highlight and the head marker
viewer_set_project(w) == [w EXCEPT !.highlight = None, !.head_marker = None]

\* GCodeViewer.set_top_view
set_top_view(w) == [w EXCEPT !.camera = "top"]

\* QTextDocument.blockCount() of the text: a line feed ends a block
BlockCount(text) == 1 + Cardinality({i \in 1..Len(text) : text[i] = LF})

\* QTextCursor.blockNumber() of the cursor at position pos
BlockOfPos(text, pos) == Cardinality({i \in 1..pos : text[i] = LF})

\* the position where block b (from 0) of the text begins
BlockStartPos(text, b) ==
    LET feeds == {i \in 1..Len(text) : text[i] = LF}
    IN  IF b = 0 THEN 0
        ELSE CHOOSE i \in feeds : Cardinality({h \in feeds : h < i}) = b - 1

\* the position of a cursor moved to QTextCursor.EndOfBlock in block b
BlockEndPos(text, b) ==
    LET feeds == {i \in 1..Len(text) : text[i] = LF}
    IN  IF b >= Cardinality(feeds) THEN Len(text)
        ELSE (CHOOSE i \in feeds : Cardinality({h \in feeds : h < i}) = b) - 1

\* QTextBlock.text() of block b
BlockText(text, b) == SubSeq(text, BlockStartPos(text, b) + 1, BlockEndPos(text, b))

\* MainWindow._on_editor_cursor_changed: the cursor and its selection lie
\* in one block, so start_line = end_line
_on_editor_cursor_changed(window) ==
    Only({IF w.current_job = None THEN w
          ELSE LET job == w.project_jobs[w.current_job[1]]
                   line == BlockOfPos(w.editor_text, w.editor_pos) + 1
                   stmt_indices == SelectSeq([k \in 1..Len(job.program) |-> k - 1],
                                             LAMBDA idx : job.program[idx + 1].line_number = line)
                   idx_map == job.program_index.statement_to_segments
                   segment_indices ==
                       Concat([k \in 1..Len(stmt_indices) |-> DictGet(idx_map, stmt_indices[k], <<>>)])
               IN  highlight_segments(w, job, segment_indices) :
          w \in {window}})

\* QPlainTextEdit.setTextCursor: cursorPositionChanged is emitted when the
\* position has changed
setTextCursor(window, pos) ==
    Only({IF pos = w.editor_pos THEN w
          ELSE _on_editor_cursor_changed([w EXCEPT !.editor_pos = pos]) :
          w \in {window}})

\* QPlainTextEdit.setPlainText and clear(): the cursor goes to the start
setPlainText(window, text) ==
    Only({setTextCursor(w, 0) : w \in {[window EXCEPT !.editor_text = text]}})

\* GCodeEditor.set_job(job), job the j-th job: the exception, if any, and
\* the window
set_job(window, j) ==
    Only({IF build_final_gcode_raises(w.project_jobs[j])
          THEN [raised |-> Some("AttributeError"), w |-> w]
          ELSE [raised |-> None,
                w |-> Only({setPlainText(w, text) : text \in {build_final_gcode(w.project_jobs[j])}})] :
          w \in {window}})

\* _stop_simulation that also empties the geometry of the simulated job
_stop_simulation_ClearGeometry(window) ==
    Only({IF w.sim_state = "idle" /\ w.sim_job = None THEN w
          ELSE reset_simulation_head([w EXCEPT !.timer_active = FALSE,
                                               !.sim_state = "idle",
                                               !.project_jobs[w.sim_job[1]].geometry = <<>>,
                                               !.sim_job = None,
                                               !.sim_current_stmt_index = -1]) :
          w \in {window}})

\* _stop_simulation without the call of viewer.reset_simulation_head
_stop_simulation_KeepHead(window) ==
    Only({IF w.sim_state = "idle" /\ w.sim_job = None THEN w
          ELSE [w EXCEPT !.timer_active = FALSE,
                         !.sim_state = "idle",
                         !.sim_job = None,
                         !.sim_current_stmt_index = -1] :
          w \in {window}})

\* MainWindow._stop_simulation
_stop_simulation(window) ==
    Only({IF w.sim_state = "idle" /\ w.sim_job = None THEN w
          ELSE reset_simulation_head([w EXCEPT !.timer_active = FALSE,
                                               !.sim_state = "idle",
                                               !.sim_job = None,
                                               !.sim_current_stmt_index = -1]) :
          w \in {window}})

\* _on_job_selected that keeps a simulation going when the job changes
_on_job_selected_NoStop(window, job) ==
    Only({LET w2 == [w EXCEPT !.current_job = job]
          IN  IF job = None
              THEN [setPlainText(w2, <<>>) EXCEPT !.status_message = "No job selected"]
              ELSE Only({IF r.raised # None THEN r.w
                         ELSE [r.w EXCEPT !.status_message = "Selected job"] :
                         r \in {set_job(w2, job[1])}}) :
          w \in {window}})

\* MainWindow._on_job_selected(job): an exception of GCodeEditor.set_job
\* ends the handler
_on_job_selected(window, job) ==
    Only({LET w1 == IF job # w.current_job THEN _stop_simulation(w) ELSE w
              w2 == [w1 EXCEPT !.current_job = job]
          IN  IF job = None
              THEN [setPlainText(w2, <<>>) EXCEPT !.status_message = "No job selected"]
              ELSE Only({IF r.raised # None THEN r.w
                         ELSE [r.w EXCEPT !.status_message = "Selected job"] :
                         r \in {set_job(w2, job[1])}}) :
          w \in {window}})

\* ProjectTreeWidget._on_selection_changed, the selection being item
_on_selection_changed(window, item) ==
    Only({_on_job_selected(w, IF item >= 1 THEN Some(item) ELSE None) :
          w \in {[window EXCEPT !.tree_selection = item]}})

\* ProjectTreeWidget.set_project: _rebuild_tree clears the tree, and
\* QTreeWidget.clear() clears the selection first; a selection that goes
\* away is signalled through itemSelectionChanged
tree_set_project(window) ==
    Only({IF w.tree_selection = -1 THEN w ELSE _on_selection_changed(w, -1) :
          w \in {window}})

\* MainWindow._new_project
_new_project(window) ==
    Only({LET w1 == _stop_simulation(w)
              w2 == [w1 EXCEPT !.project_jobs = <<>>, !.current_job = None]
              w3 == viewer_set_project(setPlainText(tree_set_project(w2), <<>>))
          IN  [w3 EXCEPT !.status_message = "New project created"] :
          w \in {window}})

\* the loop of _import_gcode_files over the selected files, from the k-th on
RECURSIVE ImportLoop(_, _, _)
ImportLoop(acc, files, k) ==
    IF k > Len(files) THEN acc
    ELSE LET r == import_gcode_file(files[k])
         IN  ImportLoop(IF r.raised # None
                        THEN [acc EXCEPT !.errors = Append(acc.errors, r.raised[1])]
                        ELSE [acc EXCEPT !.jobs = Append(acc.jobs, r.job[1]),
                                         !.imported_count = acc.imported_count + 1],
                        files, k + 1)

\* _import_gcode_files that adds no job when a file of the batch fails
_import_gcode_files_AllOrNothing(window, files) ==
    Only({IF files = <<>> THEN w
          ELSE LET r == ImportLoop([jobs |-> w.project_jobs, imported_count |-> 0,
                                    errors |-> <<>>], files, 1)
               IN  IF r.errors # <<>>
                   THEN [viewer_set_project(tree_set_project(w)) EXCEPT !.dialog = "Import errors"]
                   ELSE [viewer_set_project(tree_set_project([w EXCEPT !.project_jobs = r.jobs]))
                             EXCEPT !.status_message = "Imported file(s)"] :
          w \in {window}})

\* MainWindow._import_gcode_files, the dialog returning the files selected
\* (none when the dialog is cancelled)
_import_gcode_files(window, files) ==
    Only({IF files = <<>> THEN w
          ELSE LET r == ImportLoop([jobs |-> w.project_jobs, imported_count |-> 0,
                                    errors |-> <<>>], files, 1)
                   w1 == viewer_set_project(tree_set_project([w EXCEPT !.project_jobs = r.jobs]))
                   w2 == IF r.imported_count > 0
                         THEN [w1 EXCEPT !.status_message = "Imported file(s)"] ELSE w1
               IN  IF r.errors # <<>> THEN [w2 EXCEPT !.dialog = "Import errors"] ELSE w2 :
          w \in {window}})

\* MainWindow._apply_gcode_edits, new_source being the text of the editor
_apply_gcode_edits(window, new_source) ==
    Only({IF w.current_job = None THEN [w EXCEPT !.dialog = "No job selected"]
          ELSE LET j == w.current_job[1]
                   r == reparse_job(w.project_jobs[j], new_source)
                   w1 == [w EXCEPT !.project_jobs[j] = r.job]
               IN  IF r.raised # None THEN [w1 EXCEPT !.dialog = "Parse error"]
                   ELSE [viewer_set_project(w1) EXCEPT !.status_message = "G-code updated from editor"] :
          w \in {window}})

\* MainWindow._edit_offsets: accepted tells whether the dialog was accepted,
\* offsets is what XYZOffsetDialog.get_offsets returns, in hundredths; the
\* exception, if any, and the window
_edit_offsets(window, accepted, offsets) ==
    Only({IF w.current_job = None THEN [raised |-> None, w |-> w]
          ELSE IF build_final_gcode_raises(w.project_jobs[w.current_job[1]])
               THEN [raised |-> Some("AttributeError"), w |-> w]
          ELSE IF ~accepted THEN [raised |-> None, w |-> w]
          ELSE LET j == w.current_job[1]
                   job == [w.project_jobs[j] EXCEPT !.offset_x = offsets[1],
                                                    !.offset_y = offsets[2],
                                                    !.offset_z = offsets[3]]
                   new_source == build_final_gcode(job)
                   r == reparse_job(job, new_source)
                   w1 == [w EXCEPT !.project_jobs[j] = r.job]
               IN  IF r.raised # None
                   THEN [raised |-> None, w |-> [w1 EXCEPT !.dialog = "Offset error"]]
                   ELSE [raised |-> None, w |-> setPlainText(w1, new_source)] :
          w \in {window}})

\* _start_simulation that stops a simulation when the program is empty
_start_simulation_StopOnEmpty(window) ==
    Only({IF w.current_job = None THEN [w EXCEPT !.dialog = "No job selected"]
          ELSE IF w.project_jobs[w.current_job[1]].program = <<>>
               THEN [_stop_simulation(w) EXCEPT !.dialog = "No G-code"]
          ELSE LET restarting == w.sim_state = "idle" \/ w.sim_job # w.current_job
                   w1 == [w EXCEPT !.sim_job = w.current_job]
                   w2 == IF restarting
                         THEN set_top_view(reset_simulation_head(
                                  [w1 EXCEPT !.sim_current_stmt_index = -1]))
                         ELSE w1
               IN  [w2 EXCEPT !.sim_state = "running", !.timer_active = TRUE,
                              !.status_message = "Simulation running"] :
          w \in {window}})

\* _start_simulation that starts over on every start
_start_simulation_AlwaysReset(window) ==
    Only({IF w.current_job = None THEN [w EXCEPT !.dialog = "No job selected"]
          ELSE IF w.project_jobs[w.current_job[1]].program = <<>>
               THEN [w EXCEPT !.dialog = "No G-code"]
          ELSE [set_top_view(reset_simulation_head(w))
                    EXCEPT !.sim_job = w.current_job,
                           !.sim_current_stmt_index = -1,
                           !.sim_state = "running", !.timer_active = TRUE,
                           !.status_message = "Simulation running"] :
          w \in {window}})

\* MainWindow._start_simulation
_start_simulation(window) ==
    Only({IF w.current_job = None THEN [w EXCEPT !.dialog = "No job selected"]
          ELSE IF w.project_jobs[w.current_job[1]].program = <<>>
               THEN [w EXCEPT !.dialog = "No G-code"]
          ELSE LET restarting == w.sim_state = "idle" \/ w.sim_job # w.current_job
                   w1 == [w EXCEPT !.sim_job = w.current_job]
                   w2 == IF restarting
                         THEN set_top_view(reset_simulation_head(
                                  [w1 EXCEPT !.sim_current_stmt_index = -1]))
                         ELSE w1
               IN  [w2 EXCEPT !.sim_state = "running", !.timer_active = TRUE,
                              !.status_message = "Simulation running"] :
          w \in {window}})

\* _pause_simulation that leaves the timer running
_pause_simulation_KeepTimer(w) ==
    IF w.sim_state # "running" THEN w
    ELSE [w EXCEPT !.sim_state = "paused", !.status_message = "Simulation paused"]

\* MainWindow._pause_simulation
_pause_simulation(w) ==
    IF w.sim_state # "running" THEN w
    ELSE [w EXCEPT !.timer_active = FALSE, !.sim_state = "paused",
                   !.status_message = "Simulation paused"]

\* the editor's cursor selects the block of line line_no, if the document
\* has one: findBlockByNumber, movePosition(EndOfBlock), setTextCursor
SelectEditorLine(window, line_no) ==
    Only({IF 0 <= line_no - 1 /\ line_no - 1 < BlockCount(w.editor_text)
          THEN setTextCursor(w, BlockEndPos(w.editor_text, line_no - 1))
          ELSE w :
          w \in {window}})

\* max(1, int(self._sim_lines_per_second * (self._sim_interval_ms / 1000.0)))
lines_per_tick == Max(1, (sim_lines_per_second * sim_interval_ms) \div 1000)

\* TickCursor that advances by one statement per tick
TickCursor_StepOne(cursor, total) ==
    LET advanced == IF cursor < 0 THEN 0 ELSE cursor + 1
    IN  IF advanced >= total THEN total - 1 ELSE advanced

\* TickCursor whose first tick already advances
TickCursor_FromOne(cursor, total) ==
    LET advanced == IF cursor < 0 THEN lines_per_tick ELSE cursor + lines_per_tick
    IN  IF advanced >= total THEN total - 1 ELSE advanced

\* the tick's cursor arithmetic: the new _sim_current_stmt_index for a
\* program of total >= 1 statements
TickCursor(cursor, total) ==
    LET advanced == IF cursor < 0 THEN 0 ELSE cursor + lines_per_tick
    IN  IF advanced >= total THEN total - 1 ELSE advanced

\* _on_sim_tick without the automatic stop at the end
_on_sim_tick_NoAutoStop(window) ==
    Only({IF w.sim_state # "running" \/ w.sim_job = None THEN w
          ELSE LET job == w.project_jobs[w.sim_job[1]]
                   total == Len(job.program)
               IN  IF total = 0 THEN _stop_simulation(w)
                   ELSE LET stmt_index == TickCursor(w.sim_current_stmt_index, total)
                            w1 == update_simulation_head(
                                      [w EXCEPT !.sim_current_stmt_index = stmt_index,
                                                !.tick_stmt_index = stmt_index],
                                      job, stmt_index)
                            line_no == job.program[stmt_index + 1].line_number
                        IN  [SelectEditorLine(w1, line_no) EXCEPT !.status_message = "Simulation line"] :
          w \in {window}})

\* _on_sim_tick that pauses when the program is empty
_on_sim_tick_PauseOnEmpty(window) ==
    Only({IF w.sim_state # "running" \/ w.sim_job = None THEN w
          ELSE LET job == w.project_jobs[w.sim_job[1]]
                   total == Len(job.program)
               IN  IF total = 0 THEN _pause_simulation(w)
                   ELSE LET stmt_index == TickCursor(w.sim_current_stmt_index, total)
                            w1 == update_simulation_head(
                                      [w EXCEPT !.sim_current_stmt_index = stmt_index,
                                                !.tick_stmt_index = stmt_index],
                                      job, stmt_index)
                            line_no == job.program[stmt_index + 1].line_number
                            w2 == [SelectEditorLine(w1, line_no)
                                       EXCEPT !.status_message = "Simulation line"]
                        IN  IF stmt_index >= total - 1
                            THEN [_stop_simulation(w2) EXCEPT !.status_message = "Simulation completed"]
                            ELSE w2 :
          w \in {window}})

\* MainWindow._on_sim_tick
_on_sim_tick(window) ==
    Only({IF w.sim_state # "running" \/ w.sim_job = None THEN w
          ELSE LET job == w.project_jobs[w.sim_job[1]]
                   total == Len(job.program)
               IN  IF total = 0 THEN _stop_simulation(w)
                   ELSE LET stmt_index == TickCursor(w.sim_current_stmt_index, total)
                            w1 == update_simulation_head(
                                      [w EXCEPT !.sim_current_stmt_index = stmt_index,
                                                !.tick_stmt_index = stmt_index],
                                      job, stmt_index)
                            line_no == job.program[stmt_index + 1].line_number
                            w2 == [SelectEditorLine(w1, line_no)
                                       EXCEPT !.status_message = "Simulation line"]
                        IN  IF stmt_index >= total - 1
                            THEN [_stop_simulation(w2) EXCEPT !.status_message = "Simulation completed"]
                            ELSE w2 :
          w \in {window}})

\* the statement the pick maps the segment to: the first key of
\* statement_to_segments, in insertion order, whose list holds it
PickedStatement(job, segment_index) ==
    LET idx_map == job.program_index.statement_to_segments
        holders == {si \in DOMAIN idx_map :
                       \E k \in 1..Len(idx_map[si]) : idx_map[si][k] = segment_index}
    IN  IF holders = {} THEN None
        ELSE Some(CHOOSE si \in holders : \A h \in holders : si <= h)

\* MainWindow._on_segment_picked(job, segment_index), job the j-th job:
\* setCurrentItem selects the job's item and the tree signals the change
\* unless the item is the selected one already; the result is the
\* exception, if any, and the window
_on_segment_picked(window, j, segment_index) ==
    Only({LET w1 == IF w.tree_selection # j THEN _on_selection_changed(w, j) ELSE w
              w2 == [w1 EXCEPT !.current_job = Some(j)]
              job == w.project_jobs[j]
              stmt_index == PickedStatement(job, segment_index)
          IN  Only({IF r.raised # None THEN r
                    ELSE IF stmt_index = None THEN r
                    ELSE LET line_no == job.program[stmt_index[1] + 1].line_number
                         IN  IF ~(0 <= line_no - 1 /\ line_no - 1 < BlockCount(r.w.editor_text))
                             THEN r
                             ELSE [raised |-> None,
                                   w |-> _on_editor_cursor_changed(SelectEditorLine(r.w, line_no))] :
                    r \in {set_job(w2, j)}}) :
          w \in {window}})

\* GCodeViewer._pick_segment_at, the nearest segment within the pick radius
\* being segment_index of the j-th job: an exception of the callback ends
\* the handler
_pick_segment_at(window, j, segment_index) ==
    Only({Only({IF r.raised # None THEN r.w
                ELSE highlight_segments(r.w, w.project_jobs[j], <<segment_index>>) :
                r \in {_on_segment_picked(w, j, segment_index)}}) :
          w \in {window}})

\* the window as the handlers see it when an operation begins
Window ==
    [project_jobs |-> project_jobs, current_job |-> current_job,
     tree_selection |-> tree_selection, sim_state |-> sim_state,
     sim_job |-> sim_job, sim_current_stmt_index |-> sim_current_stmt_index,
     timer_active |-> timer_active, head_marker |-> head_marker,
     highlight |-> highlight, status_message |-> status_message,
     dialog |-> dialog, tick_stmt_index |-> tick_stmt_index,
     editor_text |-> editor_text, editor_pos |-> editor_pos, camera |-> camera]

\* the window when the operation has returned
Becomes(w) ==
    /\ project_jobs' = w.project_jobs
    /\ current_job' = w.current_job
    /\ tree_selection' = w.tree_selection
    /\ sim_state' = w.sim_state
    /\ sim_job' = w.sim_job
    /\ sim_current_stmt_index' = w.sim_current_stmt_index
    /\ timer_active' = w.timer_active
    /\ head_marker' = w.head_marker
    /\ highlight' = w.highlight
    /\ status_message' = w.status_message
    /\ dialog' = w.dialog
    /\ tick_stmt_index' = w.tick_stmt_index
    /\ editor_text' = w.editor_text
    /\ editor_pos' = w.editor_pos
    /\ camera' = w.camera

\* the window right after MainWindow.__init__
WindowInit ==
    /\ project_jobs = WindowStart.project_jobs
    /\ current_job = WindowStart.current_job
    /\ tree_selection = WindowStart.tree_selection
    /\ sim_state = WindowStart.sim_state
    /\ sim_job = WindowStart.sim_job
    /\ sim_current_stmt_index = WindowStart.sim_current_stmt_index
    /\ timer_active = WindowStart.timer_active
    /\ head_marker = WindowStart.head_marker
    /\ highlight = WindowStart.highlight
    /\ status_message = WindowStart.status_message
    /\ dialog = WindowStart.dialog
    /\ tick_stmt_index = WindowStart.tick_stmt_index
    /\ editor_text = WindowStart.editor_text
    /\ editor_pos = WindowStart.editor_pos
    /\ camera = WindowStart.camera
    /\ run_ticks = -1

-----------------------------------------------------------------------------
(* The texts of the parser harness: up to MaxPieces pieces, each a token,  *)
(* a separator or a comment opener.                                        *)

MaxPieces == 4

ParsePieces ==
    { <<"G", "1">>, <<"g", "0", "1">>, <<"M", "3">>, <<"X", "1", "0">>,
      <<"x", "-", "2", ".", "5">>, <<"X">>, <<"G", "x">>, <<".">>,
      <<"I", "n", "a", "n">>, <<SP>>, <<LF>>, <<CR>>, <<";">>, <<"(">> }

RECURSIVE PieceSeqs(_, _)
PieceSeqs(pieces, n) ==
    IF n = 0 THEN {<<>>}
    ELSE LET shorter == PieceSeqs(pieces, n - 1)
         IN  shorter \cup {Append(q, p) : q \in {r \in shorter : Len(r) = n - 1}, p \in pieces}

ParseTexts == {Concat(q) : q \in PieceSeqs(ParsePieces, MaxPieces)}

\* the harness hands no job to build_final_gcode
NoOffsets == <<0, 0, 0>>

NoOut == [statements |-> <<>>, raised |-> None, geom |-> GeomStart]

InitParse ==
    /\ in_text \in ParseTexts
    /\ in_max_angle = DefaultMaxAngle
    /\ in_offsets = NoOffsets
    /\ out = NoOut
    /\ phase = "input"
    /\ next_stmt = 0
    /\ source_builds = <<>>
    /\ WindowInit

\* the harness applies parse_gcode to the text
DoParse ==
    /\ phase = "input"
    /\ out' = [statements |-> parse_gcode(in_text).statements,
               raised |-> parse_gcode(in_text).raised,
               geom |-> GeomStart]
    /\ phase' = "parsed"
    /\ UNCHANGED <<in_text, in_max_angle, in_offsets, next_stmt, source_builds>>
    /\ UNCHANGED avars

NextParse == DoParse

SpecParse == InitParse /\ [][NextParse]_vars

-----------------------------------------------------------------------------
(* The texts of the geometry harness: up to MaxGeomLines lines, each       *)
(* followed by a line feed.  The harness parses the text and then runs the *)
(* statement loop of build_geometry_and_index one statement per step.      *)

MaxGeomLines == 3

GeomLines ==
    {
      <<"G", "1", SP, "X", "1", "0", SP, "Y", "0">>,
      <<"G", "1", SP, "X", "1", "0", SP, "Y", "1", "0">>,
      <<"G", "0", SP, "X", "0", SP, "Y", "0">>,
      <<"G", "9", "1">>,
      <<"G", "9", "0">>,
      <<"g", "0", "1", SP, "x", "5">>,
      <<"G", "0", SP, "Z", "2", ".", "5">>,
      <<"G", "2", SP, "X", "1", "0", SP, "Y", "0", SP, "I", "5", SP, "J", "0">>,
      <<"G", "3", SP, "X", "0", SP, "Y", "0", SP, "I", "-", "5">>,
      <<"G", "2">>,
      <<"G", "0", "2", SP, "Z", "1", SP, "J", "5">>,
      <<"G", "3", SP, "X", "5", SP, "Y", "5", SP, "I", "5", SP, "Z", "1">>,
      <<"G", "2", SP, "X", "2", "0", SP, "I", "5">>,
      <<"M", "3", SP, "S", "1", "0", "0", "0">>,
      <<"G", "2", SP, "X", "1", "0", SP, "I", "n", "a", "n">>,
      <<"G", "3", SP, "X", "2", SP, "Y", "-", "0", SP, "I", "5">>,
      <<"G", "0", "0", "1", SP, "X", "5">>,
      <<"G", "0", "9", "0">>,
      <<>>,
      <<"G", "9", "0", SP, "G", "1", SP, "X", "1", "0">>,
      <<"M", "3", SP, "G", "1", SP, "X", "5">>,
      <<"G", "1", SP, "X", "5", SP, "G", "9", "1">>
    }

\* the values of arc_subdiv_max_angle_deg: within [1, 45] and above
MaxAngles == {DefaultMaxAngle, 45, 60}

GeomTexts ==
    {Concat([k \in 1..Len(q) |-> q[k] \o <<LF>>]) : q \in PieceSeqs(GeomLines, MaxGeomLines)}

InitGeom ==
    /\ in_text \in GeomTexts
    /\ ArcsOnAxis(parse_gcode(in_text).statements)
    /\ in_max_angle \in MaxAngles
    /\ in_offsets = NoOffsets
    /\ out = NoOut
    /\ phase = "input"
    /\ next_stmt = 0
    /\ source_builds = <<>>
    /\ WindowInit

\* one pass of the statement loop of build_geometry_and_index
BuildStep ==
    /\ phase = "parsed"
    /\ out.geom.raised = None
    /\ next_stmt < Len(out.statements)
    /\ out' = [out EXCEPT !.geom = StatementStep(out.geom, next_stmt,
                                                 out.statements[next_stmt + 1], in_max_angle)]
    /\ next_stmt' = next_stmt + 1
    /\ UNCHANGED <<in_text, in_max_angle, in_offsets, phase, source_builds>>
    /\ UNCHANGED avars

\* the loop is exhausted: build_geometry_and_index returns
BuildReturn ==
    /\ phase = "parsed"
    /\ out.geom.raised = None
    /\ next_stmt = Len(out.statements)
    /\ phase' = "built"
    /\ UNCHANGED <<in_text, in_max_angle, in_offsets, out, next_stmt, source_builds>>
    /\ UNCHANGED avars

NextGeom == DoParse \/ BuildStep \/ BuildReturn

SpecGeom == InitGeom /\ [][NextGeom]_vars

-----------------------------------------------------------------------------
(* The texts of the body harness: up to MaxBodyLines lines, each followed  *)
(* by a line feed.  The harness applies extract_body to the text and then  *)
(* build_final_gcode to a job that carries the text and three offsets.     *)

MaxBodyLines == 4

BodyLines ==
    {
      <<"G", "1", SP, "X", "1">>,
      <<"S", "1", "0", "0", "0">>,
      <<"M", "3", SP, "S", "1", "0", "0">>,
      <<"M", "5">>,
      <<"m", "0", "5", SP, ";", "e", "n", "d">>,
      <<"(", "S", "1", SP, "M", "5", ")">>,
      <<>>,
      <<SP>>,
      <<"G", "0", SP, "Z", "0", SP, "M", "5">>,
      <<"G", "1", SP, "X", "1", SP, "(", "s", "e", "t", SP, "S", "1", "0", "0", "0", SP, "n", "o", "w", ")">>,
      <<"G", "1", SP, "X", "2", SP, "(", SP, "M", "5", SP, ")">>
    }

BodyTexts ==
    {Concat([k \in 1..Len(q) |-> q[k] \o <<LF>>]) : q \in PieceSeqs(BodyLines, MaxBodyLines)}

\* the offsets of the job, in hundredths
BodyOffsets == { <<0, 0, -10>>, <<125, -250, 5>>, <<-5, 100000, 0>> }

NoBody == [body_lines |-> <<>>, final_text |-> <<>>]

\* the job the harness hands to build_final_gcode
BodyJob ==
    [original_source |-> in_text,
     offset_x |-> in_offsets[1], offset_y |-> in_offsets[2], offset_z |-> in_offsets[3]]

InitBody ==
    /\ in_text \in BodyTexts
    /\ in_max_angle = DefaultMaxAngle
    /\ in_offsets \in BodyOffsets
    /\ out = NoBody
    /\ phase = "input"
    /\ next_stmt = 0
    /\ source_builds = <<>>
    /\ WindowInit

\* the harness applies extract_body to the text
DoExtractBody ==
    /\ phase = "input"
    /\ out' = [out EXCEPT !.body_lines = extract_body(in_text)]
    /\ phase' = "extracted"
    /\ UNCHANGED <<in_text, in_max_angle, in_offsets, next_stmt, source_builds>>
    /\ UNCHANGED avars

\* the harness applies build_final_gcode to the job
DoBuildFinal ==
    /\ phase = "extracted"
    /\ out' = [out EXCEPT !.final_text = build_final_gcode(BodyJob)]
    /\ phase' = "final"
    /\ UNCHANGED <<in_text, in_max_angle, in_offsets, next_stmt, source_builds>>
    /\ UNCHANGED avars

NextBody == DoExtractBody \/ DoBuildFinal

SpecBody == InitBody /\ [][NextBody]_vars

-----------------------------------------------------------------------------
(* The pick query of the viewer (GCodeViewer._pick_segment_at) as a        *)
(* function of the jobs of the project, the point hit on the plane z = 0   *)
(* and the pick radius.  A squared distance is a fraction num / den.       *)

\* dist_sq of the point (px, py) to the segment: the closest point is the
\* start when the segment has no length in XY or t <= 0, the end when
\* t >= 1, and the foot of the perpendicular otherwise
SegmentDistSq(seg, px, py) ==
    LET vx == Val(seg.end[1]) - Val(seg.start[1])
        vy == Val(seg.end[2]) - Val(seg.start[2])
        wx == px - Val(seg.start[1])
        wy == py - Val(seg.start[2])
        seg_len_sq == vx * vx + vy * vy
        dot == vx * wx + vy * wy
    IN  IF seg_len_sq = 0 \/ dot <= 0 THEN [num |-> wx * wx + wy * wy, den |-> 1]
        ELSE IF dot >= seg_len_sq
             THEN [num |-> (wx - vx) * (wx - vx) + (wy - vy) * (wy - vy), den |-> 1]
        ELSE [num |-> (wx * wx + wy * wy) * seg_len_sq - dot * dot, den |-> seg_len_sq]

\* a < b for two fractions with positive denominators: by their whole parts,
\* and by their remainders when these are equal
FracLess(a, b) ==
    \/ a.num \div a.den < b.num \div b.den
    \/ /\ a.num \div a.den = b.num \div b.den
       /\ (a.num % a.den) * b.den < (b.num % b.den) * a.den

\* the body of the inner loop taking a segment that is as near as the best
PickStep_LastOfNearest(best, j, i, seg, px, py) ==
    LET dist_sq == SegmentDistSq(seg, px, py)
    IN  IF ~FracLess(best.dist_sq, dist_sq)
        THEN [job |-> j, seg_idx |-> i, dist_sq |-> dist_sq]
        ELSE best

\* the body of the inner loop: "if dist_sq < best_dist_sq"
PickStep(best, j, i, seg, px, py) ==
    LET dist_sq == SegmentDistSq(seg, px, py)
    IN  IF FracLess(dist_sq, best.dist_sq)
        THEN [job |-> j, seg_idx |-> i, dist_sq |-> dist_sq]
        ELSE best

\* "for i, seg in enumerate(job.geometry.segments)", from the 0-based i on
RECURSIVE PickSegments(_, _, _, _, _, _)
PickSegments(best, j, segments, i, px, py) ==
    IF i >= Len(segments) THEN best
    ELSE PickSegments(PickStep(best, j, i, segments[i + 1], px, py), j, segments, i + 1, px, py)

\* "for job in self._project.jobs", from the j-th job on
RECURSIVE PickJobs(_, _, _, _, _)
PickJobs(best, jobs, j, px, py) ==
    IF j > Len(jobs) THEN best
    ELSE PickJobs(IF ~jobs[j].visible THEN best
                  ELSE PickSegments(best, j, jobs[j].geometry, 0, px, py),
                  jobs, j + 1, px, py)

\* _pick_segment_at for the hit (px, py): the job and the segment handed to
\* the callback and highlighted, None when the handler returns before
PickAt(jobs, px, py, pick_radius) ==
    LET best == PickJobs([job |-> 0, seg_idx |-> -1,
                          dist_sq |-> [num |-> pick_radius * pick_radius, den |-> 1]],
                         jobs, 1, px, py)
    IN  IF best.job = 0 \/ best.seg_idx < 0 THEN None
        ELSE Some(<<best.job, best.seg_idx>>)

MaxPickJobs == 3

\* "G1 X1"
PickTextLine == <<"G", "1", SP, "X", "1", LF>>

\* "G0 Y0.5", "G1 X1 Y0.5"
PickTextAbove ==
    <<"G", "0", SP, "Y", "0", ".", "5", LF, "G", "1", SP, "X", "1", SP, "Y", "0", ".", "5", LF>>

\* "G1 Z5", "G1 X1": a segment without length in XY, then one above "G1 X1"
PickTextRaised == <<"G", "1", SP, "Z", "5", LF, "G", "1", SP, "X", "1", LF>>

PickTexts == { <<>>, PickTextLine, PickTextAbove, PickTextRaised }

\* the jobs of the project: the geometry of a text, shown or hidden
PickJobSet ==
    {[geometry |-> BuildForSource(source).geometry, visible |-> visible] :
        source \in PickTexts, visible \in BOOLEAN}

\* the hits on the plane, in hundredths
PickPoints == { <<50, 40>>, <<50, 25>>, <<50, 300>>, <<50, -100>>, <<150, 0>>, <<-50, 25>> }

\* the values of _pick_radius, in hundredths
PickRadii == {100, 30}

NoPick == [jobs |-> <<>>, point |-> <<0, 0>>, pick_radius |-> 100, picked |-> None,
           callbacks |-> <<>>]

InitPick ==
    /\ in_text = <<>>
    /\ in_max_angle = DefaultMaxAngle
    /\ in_offsets = NoOffsets
    /\ \E jobs \in PieceSeqs(PickJobSet, MaxPickJobs) : \E point \in PickPoints :
           \E pick_radius \in PickRadii :
               out = [NoPick EXCEPT !.jobs = jobs, !.point = point, !.pick_radius = pick_radius]
    /\ phase = "input"
    /\ next_stmt = 0
    /\ source_builds = <<>>
    /\ WindowInit

\* the right click: the handler looks for the segment and calls the
\* callback when it has one
DoPick ==
    /\ phase = "input"
    /\ \E picked \in {PickAt(out.jobs, out.point[1], out.point[2], out.pick_radius)} :
           out' = [out EXCEPT !.picked = picked,
                              !.callbacks = IF picked = None THEN <<>> ELSE <<picked[1]>>]
    /\ phase' = "picked"
    /\ UNCHANGED <<in_text, in_max_angle, in_offsets, next_stmt, source_builds>>
    /\ UNCHANGED avars

\* the user shows or hides a job in the project tree before the click
ToggleVisible ==
    /\ phase = "input"
    /\ \E j \in 1..Len(out.jobs) :
           out' = [out EXCEPT !.jobs[j].visible = ~out.jobs[j].visible]
    /\ UNCHANGED <<in_text, in_max_angle, in_offsets, phase, next_stmt, source_builds>>
    /\ UNCHANGED avars

NextPick == DoPick \/ ToggleVisible

SpecPick == InitPick /\ [][NextPick]_vars

-----------------------------------------------------------------------------
(* The offset harness: the main window with one selected job that carries  *)
(* three offsets, as build_final_gcode and _edit_offsets read them.  The   *)
(* user edits the offsets and applies the text of the editor.              *)

MaxEdits == 2

\* "G1 X10 S1000", "G2 X10 Inan": the arc starts on its target, so the text
\* builds; behind the header template it does not
HeadedNanArcText ==
    <<"G", "1", SP, "X", "1", "0", SP, "S", "1", "0", "0", "0", LF,
      "G", "2", SP, "X", "1", "0", SP, "I", "n", "a", "n", LF>>

\* "S1000 M3", "G1 X5", "M5"
WrappedText ==
    <<"S", "1", "0", "0", "0", SP, "M", "3", LF, "G", "1", SP, "X", "5", LF, "M", "5", LF>>

\* the sources of the job at the start
EditTexts == { <<>>, ScenarioA, HeadedNanArcText, WrappedText }

\* what the dialog can return
DialogOffsets == BodyOffsets

\* the texts a job can have as its source after up to n accepted edits
RECURSIVE EditSources(_)
EditSources(n) ==
    IF n = 0 THEN EditTexts
    ELSE LET before == EditSources(n - 1)
         IN  before \cup {build_final_gcode([original_source |-> source,
                                               offset_x |-> o[1], offset_y |-> o[2],
                                               offset_z |-> o[3]]) :
                              source \in before, o \in DialogOffsets}

\* the results of _build_for_source for these texts
EditBuilds == [source \in EditSources(MaxEdits) |-> BuildForSource(source)]

\* the job import_gcode_file makes of the text, with the three offsets added
EditJob(source, offsets) ==
    [original_source |-> source,
     program |-> EditBuilds[source].program,
     geometry |-> EditBuilds[source].geometry,
     program_index |-> EditBuilds[source].index,
     offset_x |-> offsets[1], offset_y |-> offsets[2], offset_z |-> offsets[3]]

\* the window with the job in the project and selected in the tree
InitEdit ==
    /\ in_text \in EditTexts
    /\ in_max_angle = DefaultMaxAngle
    /\ in_offsets \in DialogOffsets
    /\ out = NoOut
    /\ phase = "app"
    /\ next_stmt = 0
    /\ source_builds = EditBuilds
    /\ \E w \in {_on_selection_changed(
                      [WindowStart EXCEPT !.project_jobs = <<EditJob(in_text, in_offsets)>>], 1)} :
           /\ project_jobs = w.project_jobs
           /\ current_job = w.current_job
           /\ tree_selection = w.tree_selection
           /\ sim_state = w.sim_state
           /\ sim_job = w.sim_job
           /\ sim_current_stmt_index = w.sim_current_stmt_index
           /\ timer_active = w.timer_active
           /\ head_marker = w.head_marker
           /\ highlight = w.highlight
           /\ status_message = w.status_message
           /\ dialog = w.dialog
           /\ tick_stmt_index = w.tick_stmt_index
           /\ editor_text = w.editor_text
           /\ editor_pos = w.editor_pos
           /\ camera = w.camera
    /\ run_ticks = -1

\* the Offsets button: the dialog is accepted with offsets, or cancelled
EditOffsetsOf(accepted, offsets) ==
    /\ accepted =>
           build_final_gcode([project_jobs[1] EXCEPT !.offset_x = offsets[1],
                                                     !.offset_y = offsets[2],
                                                     !.offset_z = offsets[3]])
               \in DOMAIN source_builds
    /\ \E r \in {_edit_offsets(Window, accepted, offsets)} :
           /\ Becomes(r.w)
           /\ UNCHANGED run_ticks
           /\ UNCHANGED pvars

EditOffsets ==
    \E accepted \in BOOLEAN : \E offsets \in DialogOffsets : EditOffsetsOf(accepted, offsets)

\* Apply G-code edits on the text the editor shows
ApplyEditorText ==
    /\ editor_text \in DOMAIN source_builds
    /\ \E w \in {_apply_gcode_edits(Window, editor_text)} :
           /\ Becomes(w)
           /\ UNCHANGED run_ticks
           /\ UNCHANGED pvars

NextEdit == EditOffsets \/ ApplyEditorText

SpecEdit == InitEdit /\ [][NextEdit]_vars

-----------------------------------------------------------------------------
(* The application: the operations of the main window on a project of up   *)
(* to MaxJobs jobs.                                                        *)

MaxJobs == 2

\* what the file dialog can return: up to n files, each readable or not
FileSeqs(n) == PieceSeqs({Unreadable} \cup {Some(t) : t \in AppTexts}, n)

\* run_ticks after an operation that is no tick and no start
RunTicksAfter(w, interrupted) ==
    IF w.sim_state = "idle" \/ interrupted THEN -1 ELSE run_ticks

Init ==
    /\ in_text = <<>>
    /\ in_max_angle = DefaultMaxAngle
    /\ in_offsets = NoOffsets
    /\ out = NoOut
    /\ phase = "app"
    /\ next_stmt = 0
    /\ source_builds = AppBuilds
    /\ WindowInit

\* File > Import G-code
ImportOf(files) ==
    \E w \in {_import_gcode_files(Window, files)} :
        /\ Becomes(w)
        /\ run_ticks' = RunTicksAfter(w, FALSE)
        /\ UNCHANGED pvars

ImportFiles == \E files \in FileSeqs(MaxJobs - Len(project_jobs)) : ImportOf(files)

\* File > New project
NewProject ==
    \E w \in {_new_project(Window)} :
        /\ Becomes(w)
        /\ run_ticks' = RunTicksAfter(w, FALSE)
        /\ UNCHANGED pvars

\* the user selects another item of the project tree, or unselects
SelectItem ==
    \E item \in -1..Len(project_jobs) :
        /\ item # tree_selection
        /\ \E w \in {_on_selection_changed(Window, item)} :
               /\ Becomes(w)
               /\ run_ticks' = RunTicksAfter(w, FALSE)
        /\ UNCHANGED pvars

\* the user drags the view of the viewer
OrbitView ==
    /\ camera' = "orbit"
    /\ UNCHANGED <<pvars, project_jobs, current_job, tree_selection, sim_state, sim_job,
                   sim_current_stmt_index, timer_active, head_marker, highlight,
                   status_message, dialog, tick_stmt_index, editor_text, editor_pos,
                   run_ticks>>

\* a right click in the viewer next to a segment of a job
PickSegment ==
    \E j \in 1..Len(project_jobs) :
        \E segment_index \in 0..(Len(project_jobs[j].geometry) - 1) :
            \E w \in {_pick_segment_at(Window, j, segment_index)} :
                /\ Becomes(w)
                /\ run_ticks' = RunTicksAfter(w, FALSE)
                /\ UNCHANGED pvars

\* the window when the user has replaced the text of the editor by
\* new_source, the cursor being behind the text then
EditorTyped(new_source) ==
    setTextCursor([Window EXCEPT !.editor_text = new_source], Len(new_source))

\* the user replaces the text of the editor by new_source and chooses
\* Apply G-code edits
ApplyOf(new_source) ==
    \E typed \in {EditorTyped(new_source)} :
    \E w \in {_apply_gcode_edits(typed, new_source)} :
        /\ Becomes(w)
        /\ run_ticks' = RunTicksAfter(w, /\ sim_job # None
                                         /\ sim_job = current_job
                                         /\ w.project_jobs # project_jobs)
        /\ UNCHANGED pvars

ApplyGcodeEdits == \E new_source \in AppTexts : ApplyOf(new_source)

\* True when _start_simulation, called now, gets past its two checks
StartAccepted ==
    /\ current_job # None
    /\ project_jobs[current_job[1]].program # <<>>

\* Run
StartSimulation ==
    \E w \in {_start_simulation(Window)} :
        /\ Becomes(w)
        /\ run_ticks' = IF ~StartAccepted THEN RunTicksAfter(w, FALSE)
                        ELSE IF sim_state = "idle" \/ sim_job # current_job THEN 0
                        ELSE run_ticks
        /\ UNCHANGED pvars

\* Pause
PauseSimulation ==
    \E w \in {_pause_simulation(Window)} :
        /\ Becomes(w)
        /\ run_ticks' = RunTicksAfter(w, sim_state = "running")
        /\ UNCHANGED pvars

\* Stop
StopSimulation ==
    \E w \in {_stop_simulation(Window)} :
        /\ Becomes(w)
        /\ run_ticks' = RunTicksAfter(w, FALSE)
        /\ UNCHANGED pvars

\* True when a tick taken now gets past its early returns
TickAdvances ==
    /\ sim_state = "running"
    /\ sim_job # None
    /\ project_jobs[sim_job[1]].program # <<>>

\* the timeout of sim_timer
SimTick ==
    \E w \in {_on_sim_tick(Window)} :
        /\ Becomes(w)
        /\ run_ticks' = IF TickAdvances /\ run_ticks >= 0 THEN run_ticks + 1 ELSE run_ticks
        /\ UNCHANGED pvars

Next ==
    \/ ImportFiles
    \/ NewProject
    \/ SelectItem
    \/ ApplyGcodeEdits
    \/ StartSimulation
    \/ PauseSimulation
    \/ StopSimulation
    \/ SimTick
    \/ PickSegment
    \/ OrbitView

Spec == Init /\ [][Next]_vars

\* the timer keeps firing while it is active
SpecLive == Spec /\ WF_vars(SimTick)

-----------------------------------------------------------------------------
(* Claims                                                                  *)

\* the tokens of a line's code part whose remainder float() accepts
CodeTokens(raw) == Split(SplitComment(raw).code_part)
NumericTokens(raw) ==
    {k \in 1..Len(CodeTokens(raw)) :
        Len(CodeTokens(raw)[k]) > 1 /\ IsFloat(Tail(CodeTokens(raw)[k]))}

\* C1: parse_gcode returns exactly one statement per element of
\* T.splitlines(), in order; the statement at 0-based position i has
\* line_number i + 1 and the raw text of that line; the empty text yields
\* zero statements.
C1_OneStatementPerLine ==
    phase = "parsed" =>
        LET lines == SplitLines(in_text)
        IN  /\ Len(out.statements) = Len(lines)
            /\ \A n \in 1..Len(out.statements) :
                  /\ out.statements[n].line_number = n
                  /\ n <= Len(lines) /\ out.statements[n].raw = lines[n]
            /\ (in_text = <<>> => out.statements = <<>>)

\* a parsed text of three lines, one of them blank, another one a command
C1_Witness ==
    /\ phase = "parsed"
    /\ Len(out.statements) = 3
    /\ \E n \in 1..3 : out.statements[n].raw = <<>>
    /\ \E n \in 1..3 : out.statements[n].command # <<>>
    /\ out.statements[3].line_number = 3

\* C2: parse_gcode is total: no input reaches an error outcome, and a token
\* whose remainder is empty or not a number contributes neither a command
\* nor a parameter (every command and every parameter of a statement comes
\* from a token of its line whose remainder is a number).
C2_ParserTotal ==
    phase = "parsed" =>
        /\ out.raised = None
        /\ \A n \in 1..Len(out.statements) :
              LET st == out.statements[n]
                  toks == CodeTokens(st.raw)
                  num == NumericTokens(st.raw)
              IN  /\ st.command # <<>> =>
                        \E k \in num : /\ UpperChar(toks[k][1]) \in {"G", "M"}
                                       /\ st.command = <<UpperChar(toks[k][1])>> \o Tail(toks[k])
                  /\ \A letter \in DOMAIN st.params :
                        \E k \in num : /\ UpperChar(toks[k][1]) = letter
                                       /\ st.params[letter] = FloatValue(Tail(toks[k]))
                  /\ (num = {} => st.command = <<>> /\ st.params = NoParams)

\* a parsed line holding a single-letter token, a token with a non-numeric
\* remainder and an unterminated "(" comment, that still yields a statement
C2_Witness ==
    /\ phase = "parsed"
    /\ out.raised = None
    /\ \E n \in 1..Len(out.statements) :
          LET raw == out.statements[n].raw
              toks == CodeTokens(raw)
          IN  /\ \E k \in 1..Len(toks) : Len(toks[k]) = 1
              /\ \E k \in 1..Len(toks) : Len(toks[k]) > 1 /\ ~IsFloat(Tail(toks[k]))
              /\ Find(raw, "(") # -1
              /\ out.statements[n].command = <<>>

\* the segment indices a statement index maps to: idx_map.get(i, [])
SegsOf(g, i) == DictGet(g.stmt_to_segs, i, <<>>)
InList(list, v) == \E k \in 1..Len(list) : list[k] = v

\* C3: in the result of build_geometry_and_index with N segments, the keys
\* of segment_to_statement are exactly 0..N-1, every segment index occurs in
\* exactly one statement's list and once in it, segment_to_statement[s] = i
\* iff s is in statement_to_segments[i], and a statement that emits nothing
\* maps to zero segments.
C3_IndexIsPartition ==
    phase = "built" =>
        LET g == out.geom
            N == Len(g.segments)
            stmts == 0..(Len(out.statements) - 1)
        IN  /\ DOMAIN g.seg_to_stmt = 0..(N - 1)
            /\ DOMAIN g.stmt_to_segs \subseteq stmts
            /\ \A i \in DOMAIN g.stmt_to_segs :
                  \A k \in 1..Len(g.stmt_to_segs[i]) : g.stmt_to_segs[i][k] \in 0..(N - 1)
            /\ \A s \in 0..(N - 1) :
                  /\ Cardinality({i \in DOMAIN g.stmt_to_segs : InList(g.stmt_to_segs[i], s)}) = 1
                  /\ \A i \in DOMAIN g.stmt_to_segs :
                        Cardinality({k \in 1..Len(g.stmt_to_segs[i]) : g.stmt_to_segs[i][k] = s}) <= 1
            /\ \A s \in 0..(N - 1), i \in stmts :
                  (g.seg_to_stmt[s] = i) <=> InList(SegsOf(g, i), s)
            /\ \A i \in stmts :
                  (\A s \in 0..(N - 1) : g.seg_to_stmt[s] # i) => SegsOf(g, i) = <<>>

\* a built program with an interpolated arc (18 segments or more on one
\* statement), a statement with exactly one segment and one with none
C3_Witness ==
    /\ phase = "built"
    /\ Len(out.statements) = 3
    /\ \E i \in 0..2 : Len(SegsOf(out.geom, i)) >= 18
    /\ \E i \in 0..2 : Len(SegsOf(out.geom, i)) = 1
    /\ \E i \in 0..2 : SegsOf(out.geom, i) = <<>>


\* the target of a move as the claim defines it: per axis the parameter in
\* absolute mode, cursor + parameter in relative mode, the cursor if absent
ClaimTarget(params, absolute, cursor) ==
    LET axis(name, cur) == IF name \in DOMAIN params
                           THEN (IF absolute THEN params[name] ELSE FAdd(cur, params[name]))
                           ELSE cur
    IN  <<axis("X", cursor[1]), axis("Y", cursor[2]), axis("Z", cursor[3])>>

-----------------------------------------------------------------------------
(* Jobs and the import pipeline.                                           *)

\* C5: in every state between two operations each job of the project has
\* program = parse_gcode(original_source), and geometry and program_index
\* are what build_geometry_and_index makes of that program: the four fields
\* come from one text.
C5_JobFromOneText ==
    \A j \in 1..Len(project_jobs) :
        LET job == project_jobs[j]
            g == build_geometry_and_index(job.program, DefaultMaxAngle)
        IN  /\ job.program = parse_gcode(job.original_source).statements
            /\ g.raised = None
            /\ job.geometry = g.segments
            /\ job.program_index = [statement_to_segments |-> g.stmt_to_segs,
                                    segment_to_statement |-> g.seg_to_stmt]

\* a job was reparsed to another text with segments, next to a second job
\* with a different text, and an earlier reparse had failed
C5_Witness ==
    /\ Len(project_jobs) = 2
    /\ current_job # None
    /\ status_message = "G-code updated from editor"
    /\ dialog = "Parse error"
    /\ project_jobs[current_job[1]].geometry # <<>>
    /\ project_jobs[1].original_source # project_jobs[2].original_source

\* C6: when the build of the new text fails inside reparse_job, the apply
\* handler shows the "Parse error" warning and returns; every job, the
\* selection, the simulation and the viewer are what they were when the
\* handler was called (the highlight being the one of the edited line).
C6_FailedReparseKeepsJob ==
    [][\A t \in AppTexts :
          (current_job # None /\ source_builds[t].raised # None /\ ApplyOf(t))
              => /\ dialog' = "Parse error"
                 /\ highlight' = EditorTyped(t).highlight
                 /\ editor_text' = t
                 /\ UNCHANGED <<project_jobs, current_job, tree_selection, sim_state,
                                sim_job, sim_current_stmt_index, timer_active,
                                head_marker, status_message>>]_vars

\* a reparse failed while the job was being simulated and its highlight shown
C6_Witness ==
    /\ dialog = "Parse error"
    /\ sim_state = "running"
    /\ current_job # None
    /\ project_jobs[current_job[1]].geometry # <<>>
    /\ highlight # None

-----------------------------------------------------------------------------
(* The simulation stepper.                                                 *)

\* C7: a start with no job selected, or with a selected job of zero
\* statements, changes neither the simulation state, the simulated job, the
\* cursor nor the timer (nor the jobs or the viewer); every other start
\* leaves the stepper running with the timer active.
C7_StartRejectedOrRunning ==
    [][StartSimulation =>
          IF current_job = None \/ Len(project_jobs[current_job[1]].program) = 0
          THEN UNCHANGED <<sim_state, sim_job, sim_current_stmt_index, timer_active,
                           project_jobs, current_job, head_marker, highlight>>
          ELSE sim_state' = "running" /\ timer_active' /\ sim_job' = current_job]_vars

\* a start was rejected on a paused simulation whose job had been emptied
C7_Witness ==
    /\ dialog = "No G-code"
    /\ sim_state = "paused"
    /\ sim_current_stmt_index >= 0

\* C8: a tick in Running on a program of N >= 1 statements hands on the
\* index 0 if the cursor was unset and min(cursor + 12, N - 1) otherwise,
\* and that index is the cursor while the run goes on; as long as a run
\* lasts the cursor never decreases; a tick in Idle or Paused changes
\* nothing.
C8_TickRule ==
    [][/\ SimTick =>
             IF TickAdvances
             THEN LET N == Len(project_jobs[sim_job[1]].program)
                      c == IF sim_current_stmt_index < 0 THEN 0
                           ELSE Min(sim_current_stmt_index + 12, N - 1)
                  IN  /\ tick_stmt_index' = c
                      /\ sim_state' = "running" => sim_current_stmt_index' = c
             ELSE sim_state \in {"idle", "paused"} => UNCHANGED avars
       /\ (sim_state # "idle" /\ sim_state' # "idle" /\ sim_job' = sim_job)
              => sim_current_stmt_index' >= sim_current_stmt_index
      ]_vars

\* the second tick of a run has advanced the cursor by 12
C8_Witness ==
    /\ sim_state = "running"
    /\ sim_current_stmt_index = 12
    /\ tick_stmt_index = 12

\* the highlight that update_simulation_head leaves for statement i of job
StatementHighlight(job, i) ==
    LET segs == DictGet(job.program_index.statement_to_segments, i, <<>>)
    IN  IF segs = <<>> THEN None
        ELSE Some([k \in 1..Len(segs) |-> job.geometry[segs[k] + 1]])

\* C9: a running simulation does not stay running for ever while the timer
\* fires; the tick that reaches the last statement hands on that statement
\* (its highlight is the one drawn) and leaves the stepper idle, with the
\* timer stopped and no cursor; every other tick leaves it running with a
\* larger cursor, so the playback never starts over.
C9_RunEndsIdle ==
    /\ [][(SimTick /\ TickAdvances) =>
             LET job == project_jobs[sim_job[1]]
                 N == Len(job.program)
                 c == IF sim_current_stmt_index < 0 THEN 0
                      ELSE Min(sim_current_stmt_index + 12, N - 1)
             IN  IF c = N - 1
                 THEN /\ tick_stmt_index' = N - 1
                      /\ highlight' = StatementHighlight(job, N - 1)
                      /\ sim_state' = "idle"
                      /\ ~timer_active'
                      /\ sim_job' = None
                      /\ sim_current_stmt_index' = -1
                 ELSE /\ sim_state' = "running"
                      /\ timer_active'
                      /\ sim_current_stmt_index' > sim_current_stmt_index
         ]_vars
    /\ (sim_state = "running") ~> (sim_state # "running")

\* a run of the long program has ended by itself on its last statement
C9_Witness ==
    /\ sim_state = "idle"
    /\ ~timer_active
    /\ status_message = "Simulation completed"
    /\ tick_stmt_index = MaxProgram - 1
    /\ highlight # None

\* the cursor after n more ticks that nothing interrupts, on a program of
\* total statements (the stop of the last tick not applied)
RECURSIVE CursorAfterTicks(_, _, _)
CursorAfterTicks(cursor, n, total) ==
    IF n = 0 THEN cursor
    ELSE IF n = 1 THEN TickCursor(cursor, total)
    ELSE CHOOSE c \in {CursorAfterTicks(half, n - (n \div 2), total) :
                           half \in {CursorAfterTicks(cursor, n \div 2, total)}} : TRUE

\* C10 as stated: an uninterrupted run from a fresh start on N statements
\* stops by itself on tick ceil(N / 12).
C10_StopsOnTickCeilN ==
    [][(SimTick /\ TickAdvances /\ run_ticks >= 0 /\ sim_state' = "idle")
          => run_ticks' = CeilDiv(Len(project_jobs[sim_job[1]].program), 12)]_vars

\* C10, amended: an uninterrupted run from a fresh start on N statements
\* stops by itself on tick ceil((N - 1) / 12) + 1, the first tick only
\* moving to statement 0; for 5000 statements that is tick 418: the cursor
\* is short of the last statement after 417 ticks and on it after 418.
C10_StopsOnTickCeilNMinus1Plus1 ==
    /\ CursorAfterTicks(-1, 417, 5000) < 4999
    /\ CursorAfterTicks(-1, 418, 5000) = 4999
    /\ [][(SimTick /\ TickAdvances /\ run_ticks >= 0 /\ sim_state' = "idle")
             => run_ticks' = CeilDiv(Len(project_jobs[sim_job[1]].program) - 1, 12) + 1]_vars

\* an uninterrupted run of three ticks has ended by itself
C10_Witness ==
    /\ sim_state = "idle"
    /\ status_message = "Simulation completed"
    /\ run_ticks >= 3

\* C11: a step that changes the selected job leaves the stepper idle, and
\* in every state where the stepper is running or paused the simulated job
\* is the selected job.
C11_JobChangeForcesIdle ==
    [][/\ current_job' # current_job => sim_state' = "idle"
       /\ sim_state' \in {"running", "paused"}
              => sim_job' # None /\ sim_job' = current_job'
      ]_vars

\* the second job, which has no statement to simulate, is the selected one
\* after ticks on the first job, and the stepper is idle
C11_Witness ==
    /\ Len(project_jobs) = 2
    /\ current_job = Some(2)
    /\ project_jobs[2].program = <<>>
    /\ Len(project_jobs[1].program) > 1
    /\ tick_stmt_index = 0
    /\ status_message = "Simulation line"
    /\ sim_state = "idle"
    /\ sim_job = None

\* C12: a start that is accepted from Idle, or on a job other than the
\* simulated one, unsets the cursor, removes the head marker and asks for
\* the top view, and the tick after it hands on statement 0; a start from
\* Paused on the simulated job leaves the cursor and the view as they are,
\* and a tick with a cursor short of the last statement hands on a later
\* statement than the cursor's.
C12_RestartResetsResumeKeeps ==
    [][/\ (StartSimulation /\ StartAccepted) =>
              /\ sim_state' = "running"
              /\ sim_job' = current_job
              /\ IF sim_state = "idle" \/ sim_job # current_job
                 THEN /\ sim_current_stmt_index' = -1
                      /\ head_marker' = None
                      /\ camera' = "top"
                 ELSE /\ sim_current_stmt_index' = sim_current_stmt_index
                      /\ head_marker' = head_marker
                      /\ camera' = camera
       /\ (SimTick /\ TickAdvances) =>
              IF sim_current_stmt_index < 0 THEN tick_stmt_index' = 0
              ELSE sim_current_stmt_index < Len(project_jobs[sim_job[1]].program) - 1
                       => tick_stmt_index' > sim_current_stmt_index
      ]_vars

\* a simulation resumed after its first tick, the view dragged since the
\* start: the cursor is still on statement 0 and the view is not reset
C12_Witness ==
    /\ sim_state = "running"
    /\ status_message = "Simulation running"
    /\ sim_current_stmt_index = 0
    /\ tick_stmt_index = 0
    /\ camera = "orbit"

\* C13: for the statement index i that a tick hands to the viewer: when
\* statement_to_segments gives i a non-empty list, update_simulation_head
\* highlights exactly the segments of the list and puts the head marker on
\* the end point of the last of them; when it gives i nothing, no segment
\* is highlighted and there is no head marker, whatever an earlier tick
\* has left.  The highlight is the one shown after the tick, and so is the
\* head marker, unless the tick has reached the last statement and stopped
\* the simulation.
C13_TickHighlightAndHead ==
    [][(SimTick /\ TickAdvances) =>
          LET job == project_jobs[sim_job[1]]
              i == tick_stmt_index'
              segs == DictGet(job.program_index.statement_to_segments, i, <<>>)
              shown == update_simulation_head(Window, job, i)
          IN  /\ IF segs # <<>>
                 THEN /\ shown.highlight =
                             Some([k \in 1..Len(segs) |-> job.geometry[segs[k] + 1]])
                      /\ shown.head_marker = Some(job.geometry[segs[Len(segs)] + 1].end)
                 ELSE /\ shown.highlight = None
                      /\ shown.head_marker = None
              /\ highlight' = shown.highlight
              /\ IF sim_state' = "running" THEN head_marker' = shown.head_marker
                 ELSE i = Len(job.program) - 1 /\ head_marker' = None
      ]_vars

\* the second tick of a run is on a blank line: the head marker that the
\* first tick left on the end of its segment is gone, and so is the highlight
C13_Witness ==
    /\ sim_state = "running"
    /\ tick_stmt_index = 12
    /\ sim_job # None
    /\ DictGet(project_jobs[sim_job[1]].program_index.statement_to_segments, 0, <<>>) # <<>>
    /\ DictGet(project_jobs[sim_job[1]].program_index.statement_to_segments, 12, <<>>) = <<>>
    /\ highlight = None
    /\ head_marker = None

-----------------------------------------------------------------------------
(* Arcs.                                                                   *)

\* True when the next statement of the loop is an arc that is interpolated:
\* G2/G3 with I or J, an XY target other than the cursor's, no NaN offset
ArcInterpolatedNext ==
    /\ phase = "parsed"
    /\ out.geom.raised = None
    /\ next_stmt < Len(out.statements)
    /\ LET stmt == out.statements[next_stmt + 1]
           g == out.geom
           t == ClaimTarget(stmt.params, g.absolute, <<g.x, g.y, g.z>>)
       IN  /\ Upper(stmt.command) \in ArcCmds
           /\ "I" \in DOMAIN stmt.params \/ "J" \in DOMAIN stmt.params
           /\ ~(Val(t[1]) = Val(g.x) /\ Val(t[2]) = Val(g.y))
           /\ ~IsNaN(DictGet(stmt.params, "I", 0))
           /\ ~IsNaN(DictGet(stmt.params, "J", 0))

\* the target, the centre, the start and end radius and the start and end
\* angle (degrees, as atan2 gives them) of that arc
NextArc ==
    LET stmt == out.statements[next_stmt + 1]
        g == out.geom
        t == ClaimTarget(stmt.params, g.absolute, <<g.x, g.y, g.z>>)
        cx == FAdd(g.x, DictGet(stmt.params, "I", 0))
        cy == FAdd(g.y, DictGet(stmt.params, "J", 0))
    IN  [target |-> <<Val(t[1]), Val(t[2]), Val(t[3])>>, cx |-> Val(cx), cy |-> Val(cy),
         rs |-> Abs(Val(g.x) - Val(cx)) + Abs(Val(g.y) - Val(cy)),
         re |-> Abs(Val(t[1]) - Val(cx)) + Abs(Val(t[2]) - Val(cy)),
         ang0 |-> Atan2Deg(FSub(g.y, cy), FSub(g.x, cx)),
         ang1 |-> Atan2Deg(FSub(t[2], cy), FSub(t[1], cx)),
         cw |-> Upper(stmt.command) \in CwCmds]

\* the segments that the step has added for the statement
NewSegments == SubSeq(out'.geom.segments, Len(out.geom.segments) + 1, Len(out'.geom.segments))

\* C14 as stated: the last segment of every interpolated arc ends on the
\* statement's target, also when start and target are at different
\* distances from the centre.
C14_ArcEndsOnTarget ==
    [][ArcInterpolatedNext =>
           /\ NewSegments # <<>>
           /\ SamePoint(NewSegments[Len(NewSegments)].end, NextArc.target)
      ]_pvars

\* C14, amended: the last segment of an interpolated arc ends at the end
\* angle on the circle around the centre whose radius r is the average of
\* the start radius and the end radius (the larger one when one of them is
\* zero), at the target's Z; that is the target when the target is at
\* distance r from the centre, as it is when start and target are equally
\* far from the centre, and a point |r - end radius| away from the target
\* otherwise.  The cursor after the arc is the target in every case.
C14_ArcEndsOnAveragedCircle ==
    [][ArcInterpolatedNext =>
           LET a == NextArc
               r2 == IF a.rs > 0 /\ a.re > 0 THEN a.rs + a.re ELSE 2 * Max(a.rs, a.re)
               \* the direction of the end angle from the centre
               ux == IF a.ang1 = 0 THEN 1 ELSE IF a.ang1 \in {180, -180} THEN -1 ELSE 0
               uy == IF a.ang1 = 90 THEN 1 ELSE IF a.ang1 = -90 THEN -1 ELSE 0
               last == NewSegments[Len(NewSegments)].end
           IN  /\ NewSegments # <<>>
               /\ last = <<a.cx + RoundDiv(r2 * ux, 2), a.cy + RoundDiv(r2 * uy, 2), a.target[3]>>
               /\ (last = a.target) <=> (r2 = 2 * a.re)
               /\ a.rs = a.re => last = a.target
               /\ Abs(last[1] - a.target[1]) + Abs(last[2] - a.target[2])
                      = Abs(RoundDiv(r2, 2) - a.re)
               /\ SamePoint(<<out'.geom.x, out'.geom.y, out'.geom.z>>, a.target)
      ]_pvars

\* "G2 X20 I5" from the origin: radii 5 and 15, the eighteen segments end
\* at (15, 0, 0) and the cursor is at (20, 0, 0)
C14_Witness ==
    /\ phase = "parsed"
    /\ next_stmt = 1
    /\ Upper(out.statements[1].command) \in CwCmds
    /\ Len(out.geom.segments) = 18
    /\ out.geom.segments[18].end = <<1500, 0, 0>>
    /\ <<out.geom.x, out.geom.y, out.geom.z>> = <<2000, 0, 0>>

\* Scenario B of the specification
ScenarioB ==
    <<"G", "9", "0", LF>> \o <<"G", "0", SP, "X", "0", SP, "Y", "0", LF>>
        \o <<"G", "2", SP, "X", "1", "0", SP, "Y", "0", SP, "I", "5", SP, "J", "0", LF>>

\* the absolute swept angle of the next arc, in degrees: from the start
\* angle down to the end angle when clockwise, up to it when
\* counter-clockwise, the end angle taken a full turn further when it is not
\* already on that side of the start angle
NextArcAngle ==
    LET a == NextArc
    IN  IF a.cw THEN (IF a.ang1 < a.ang0 THEN a.ang0 - a.ang1 ELSE a.ang0 - a.ang1 + 360)
        ELSE (IF a.ang1 > a.ang0 THEN a.ang1 - a.ang0 ELSE a.ang1 - a.ang0 + 360)

-----------------------------------------------------------------------------
(* extract_body and build_final_gcode                                      *)

\* the lines of the text under test
InLines == SplitLines(in_text)

\* no line of the text carries an S word and none carries M5 or M05
NoMarkers ==
    \A k \in 1..Len(InLines) : ~_has_spindle_s(InLines[k]) /\ ~_has_m5(InLines[k])

\* the 1-based position of the last line that is not blank, 0 when every line is blank
LastNonBlank(lines) ==
    LET nonblank == {k \in 1..Len(lines) : \E c \in 1..Len(lines[k]) : ~IsSpace(lines[k][c])}
    IN  IF nonblank = {} THEN 0 ELSE CHOOSE k \in nonblank : \A h \in nonblank : h <= k

\* C16 as stated: for every text with no S-word line and no M5/M05 line,
\* extract_body returns exactly the original sequence of lines, also when the
\* text ends with blank or whitespace-only lines.
C16_NoMarkersReturnsOriginal ==
    (phase # "input" /\ NoMarkers) => out.body_lines = InLines

\* C16 as amended: for every text with no S-word line and no M5/M05 line,
\* extract_body returns the original lines up to the last line that is not
\* blank (same lines, same order), and all the original lines when every line
\* is blank.
C16_NoMarkersReturnsLinesWithoutBlankTail ==
    (phase # "input" /\ NoMarkers) =>
        out.body_lines = IF LastNonBlank(InLines) = 0 THEN InLines
                         ELSE SubSeq(InLines, 1, LastNonBlank(InLines))

\* "G1 X1", a line of one space and an empty line: the body is the first line
C16_Witness ==
    /\ phase = "extracted"
    /\ InLines = << <<"G", "1", SP, "X", "1">>, <<SP>>, <<>> >>
    /\ NoMarkers
    /\ out.body_lines = << <<"G", "1", SP, "X", "1">> >>

\* the 1-based positions of the lines with M5 or M05
M5Lines == {k \in 1..Len(InLines) : _has_m5(InLines[k])}

\* the text has an S-word line, and its only M5/M05 line stands before the
\* first of them
OnlyM5BeforeHeaderEnd ==
    /\ HeaderEnd(InLines) # -1
    /\ Cardinality(M5Lines) = 1
    /\ \A k \in M5Lines : k - 1 < HeaderEnd(InLines)

\* the lines after the first S-word line
AfterHeader == SubSeq(InLines, HeaderEnd(InLines) + 2, Len(InLines))

\* C17 as stated: for every text whose only M5/M05 line occurs before the
\* first S-word line, extract_body returns exactly the original sequence of
\* lines, with neither header nor footer removed.
C17_EarlyM5ReturnsOriginal ==
    (phase # "input" /\ OnlyM5BeforeHeaderEnd) => out.body_lines = InLines

\* C17 as amended: for every text whose only M5/M05 line occurs before the
\* first S-word line, no footer is removed but the header still is:
\* extract_body returns the lines after the first S-word line up to the last
\* of them that is not blank, and the original sequence of lines only when no
\* line that is not blank follows the first S-word line.
C17_EarlyM5KeepsFooterOnly ==
    (phase # "input" /\ OnlyM5BeforeHeaderEnd) =>
        out.body_lines = IF LastNonBlank(AfterHeader) = 0 THEN InLines
                         ELSE SubSeq(AfterHeader, 1, LastNonBlank(AfterHeader))

\* "M5", "S1000", "G1 X1": the body is the third line alone
C17_Witness ==
    /\ phase = "extracted"
    /\ InLines = << <<"M", "5">>, <<"S", "1", "0", "0", "0">>, <<"G", "1", SP, "X", "1">> >>
    /\ OnlyM5BeforeHeaderEnd
    /\ out.body_lines = << <<"G", "1", SP, "X", "1">> >>

\* the lines of the header for the offsets, each offset with two decimals
HeaderLines(x, y, z) ==
    << <<"G", "5", "3">>,
       <<"G", "0", SP, "Z", "0">>,
       <<"G", "0", SP, "X", "0", SP, "Y", "0">>,
       <<"G", "9", "2", SP, "X">> \o Format2f(x) \o <<SP, "Y">> \o Format2f(y)
           \o <<SP, "Z">> \o Format2f(z),
       <<"G", "5", "4">>,
       <<"G", "0", SP, "Z", "5", ".", "0">>,
       <<"S", "1", "3", "9", "0", "0", SP, "M", "3">>,
       <<"G", "4", SP, "P", "2", ".", "5">> >>

FooterLines == << <<"G", "5", "3">>, <<"G", "0", SP, "Z", "0">>, <<"M", "5">> >>

\* C18: for a job with offsets (x, y, z), the lines of the text that
\* build_final_gcode returns are the 8 header lines, the fourth carrying the
\* offsets with two decimals, then exactly the lines of extract_body of the
\* job's source, then the 3 footer lines; the job is not modified.
C18_FinalTextIsHeaderBodyFooter ==
    phase = "final" =>
        /\ SplitLines(out.final_text)
               = HeaderLines(in_offsets[1], in_offsets[2], in_offsets[3])
                     \o extract_body(in_text) \o FooterLines
        /\ out.body_lines = extract_body(in_text)

\* C19: every job created by import carries three offsets, so that
\* build_final_gcode applied to it returns a text and never ends in an
\* error, and selecting a freshly imported job succeeds.
C19_ImportedJobsCarryOffsets ==
    /\ \A j \in 1..Len(project_jobs) : ~build_final_gcode_raises(project_jobs[j])
    /\ \A j \in 1..Len(project_jobs) : set_job(Window, j).raised = None

\* C20: when a job is selected, the text of the editor is the job's source
\* text, so that the editor line a simulation tick moves the cursor to is the
\* raw text of the statement the tick shows.
C20_EditorShowsSourceOfSelectedJob ==
    [][/\ (SelectItem /\ current_job' # None) =>
              editor_text' = project_jobs'[current_job'[1]].original_source
       /\ (SimTick /\ TickAdvances) =>
              LET stmt == project_jobs[sim_job[1]].program[tick_stmt_index' + 1]
              IN  /\ BlockOfPos(editor_text', editor_pos') + 1 = stmt.line_number
                  /\ BlockText(editor_text', stmt.line_number - 1) = stmt.raw]_vars

-----------------------------------------------------------------------------
(* Import of a batch                                                       *)

\* True when the file can be read and its text builds
FileImports(file) == file # Unreadable /\ source_builds[file[1]].raised = None

\* the job a file that imports gives
JobOfFile(file) ==
    [original_source |-> file[1],
     program |-> source_builds[file[1]].program,
     geometry |-> source_builds[file[1]].geometry,
     program_index |-> source_builds[file[1]].index]

\* the jobs of the files that import, in the order of the selection
ImportedJobs(files) ==
    LET good == SelectSeq(files, FileImports)
    IN  [k \in 1..Len(good) |-> JobOfFile(good[k])]

\* C21: in an import of a batch, a file whose read or build fails adds no
\* job and its error is reported by the "Import errors" warning; the other
\* files are imported, and the jobs of the project are the jobs it had
\* followed by the jobs of the files that imported, in selection order.
C21_BatchImportSkipsFailures ==
    [][\A files \in FileSeqs(MaxJobs - Len(project_jobs)) :
          (files # <<>> /\ ImportOf(files)) =>
              /\ project_jobs' = project_jobs \o ImportedJobs(files)
              /\ (\E k \in 1..Len(files) : ~FileImports(files[k])) => dialog' = "Import errors"
              /\ (\A k \in 1..Len(files) : FileImports(files[k])) => dialog' = dialog
              /\ ImportedJobs(files) # <<>> => status_message' = "Imported file(s)"]_vars

\* a batch of a file whose build fails and a file that imports, in one
\* operation from the start; a batch of an unreadable file and one that
\* imports gives the same window
C21_Witness ==
    /\ Len(project_jobs) = 1
    /\ project_jobs[1].original_source = ScenarioA
    /\ dialog = "Import errors"
    /\ status_message = "Imported file(s)"
    /\ editor_text = <<>>
    /\ camera = "top"

-----------------------------------------------------------------------------
(* Frame of the stepper                                                    *)

\* an operation of the stepper: start or resume, pause, stop, tick
StepperOperation == StartSimulation \/ PauseSimulation \/ StopSimulation \/ SimTick

\* C22: no operation of the stepper (start, pause, resume, stop, tick with
\* its head and highlight update) changes the source, program, geometry or
\* program_index of a job; a job's fields change only in Apply G-code edits
\* (reparse_job), and a job holds nothing of the stepper's cursor and state.
C22_StepperLeavesJobs ==
    [][/\ StepperOperation => project_jobs' = project_jobs
       /\ \A j \in 1..Len(project_jobs) :
              (j <= Len(project_jobs') /\ project_jobs'[j] # project_jobs[j])
                  => /\ ApplyGcodeEdits
                     /\ current_job = Some(j)
       /\ \A j \in 1..Len(project_jobs') :
              DOMAIN project_jobs'[j]
                  = {"original_source", "program", "geometry", "program_index"}]_vars

\* the stepper has run over a job up to its last statement and stopped by
\* itself, the highlight still shown
C22_Witness ==
    /\ project_jobs # <<>>
    /\ sim_state = "idle"
    /\ status_message = "Simulation completed"
    /\ highlight # None
    /\ project_jobs[1].geometry # <<>>

-----------------------------------------------------------------------------
(* Commands and parameters of a line                                       *)

\* the numeric tokens of the line whose letter is G or M
CommandTokens(raw) ==
    {k \in NumericTokens(raw) : UpperChar(CodeTokens(raw)[k][1]) \in {"G", "M"}}

\* the position of the token that becomes the command, 0 when there is none
CommandToken(raw) ==
    IF CommandTokens(raw) = {} THEN 0
    ELSE CHOOSE k \in CommandTokens(raw) : \A h \in CommandTokens(raw) : k <= h

\* the numeric tokens of the line that become parameters
ParamTokens(raw) == NumericTokens(raw) \ {CommandToken(raw)}

\* C23: on each line the first token whose letter is G or M and whose
\* remainder is a number is the command, written as the upper-cased letter
\* followed by the remainder as it stands (g01 gives G01); every other numeric
\* token, a later G or M token included, is stored as params[letter] = value,
\* and of several tokens with one letter the last gives the value.
C23_FirstGMIsCommandLastParamWins ==
    phase = "parsed" =>
        \A n \in 1..Len(out.statements) :
            LET st == out.statements[n]
                toks == CodeTokens(st.raw)
                c == CommandToken(st.raw)
                ps == ParamTokens(st.raw)
            IN  /\ st.command = IF c = 0 THEN <<>>
                                ELSE <<UpperChar(toks[c][1])>> \o Tail(toks[c])
                /\ DOMAIN st.params = {UpperChar(toks[k][1]) : k \in ps}
                /\ \A k \in ps :
                      (\A h \in ps : UpperChar(toks[h][1]) = UpperChar(toks[k][1]) => h <= k)
                          => st.params[UpperChar(toks[k][1])] = FloatValue(Tail(toks[k]))

\* "g01 M3": the command is G01 and M3 is the parameter M = 3
C23_Witness ==
    /\ phase = "parsed"
    /\ in_text = <<"g", "0", "1", SP, "M", "3">>
    /\ out.statements[1].command = <<"G", "0", "1">>
    /\ DOMAIN out.statements[1].params = {"M"}
    /\ out.statements[1].params["M"] = 300

\* "X10 x-2.5": the parameter X is -2.5
C23_LastWinsReached ==
    /\ phase = "parsed"
    /\ in_text = <<"X", "1", "0", SP, "x", "-", "2", ".", "5">>
    /\ out.statements[1].params["X"] = -250

-----------------------------------------------------------------------------
(* Arcs that fall back to a line                                           *)

\* the next statement is an arc that takes the linear fallback: I and J
\* both absent, or the XY target equal to the current XY
ArcFallbackNext ==
    /\ phase = "parsed"
    /\ out.geom.raised = None
    /\ next_stmt < Len(out.statements)
    /\ LET stmt == out.statements[next_stmt + 1]
           g == out.geom
           t == ClaimTarget(stmt.params, g.absolute, <<g.x, g.y, g.z>>)
       IN  /\ Upper(stmt.command) \in ArcCmds
           /\ \/ "I" \notin DOMAIN stmt.params /\ "J" \notin DOMAIN stmt.params
              \/ Val(t[1]) = Val(g.x) /\ Val(t[2]) = Val(g.y)

\* C24: an arc statement that takes the linear fallback follows the
\* suppression rule of a linear move: exactly one segment cursor -> target if
\* the target differs from the cursor, and no segment if the target equals the
\* cursor (a bare G2, a full circle without a change of Z).
C24_FallbackArcSuppressesNullMove ==
    [][ArcFallbackNext =>
           LET g == out.geom
               cursor == <<g.x, g.y, g.z>>
               target == ClaimTarget(out.statements[next_stmt + 1].params, g.absolute, cursor)
           IN  /\ NewSegments = IF ~SamePoint(target, cursor)
                                THEN <<[start |-> cursor, end |-> target]>>
                                ELSE <<>>
               /\ Len(SegsOf(out'.geom, next_stmt))
                      = (IF ~SamePoint(target, cursor) THEN 1 ELSE 0)
      ]_pvars

-----------------------------------------------------------------------------
(* The winding of an arc                                                   *)

\* the signed sweep of the next arc, in degrees
NextArcSweep == ArcSweep(NextArc.cw, NextArc.ang0, NextArc.ang1)

\* True when start point and target lie in the same direction from the centre
SameDirection == (NextArc.ang1 - NextArc.ang0) % 360 = 0

\* C25: for every non-degenerate arc the signed sweep has the commanded
\* direction: strictly negative and at most a full turn for G2/G02, strictly
\* positive and at most a full turn for G3/G03; equal start and end angles
\* give a full turn, never a sweep of zero; the segments of the arc are as
\* many as that sweep asks for.
C25_SweepHasCommandedDirection ==
    [][ArcInterpolatedNext =>
           /\ NextArc.cw => (NextArcSweep < 0 /\ NextArcSweep >= -360)
           /\ ~NextArc.cw => (NextArcSweep > 0 /\ NextArcSweep <= 360)
           /\ SameDirection => Abs(NextArcSweep) = 360
           /\ Len(NewSegments) = ArcSteps(NextArcSweep, in_max_angle)
      ]_pvars

-----------------------------------------------------------------------------
(* The cursor after an arc                                                 *)

\* the next statement is an arc that the builder gets through
ArcNext ==
    /\ phase = "parsed"
    /\ out.geom.raised = None
    /\ next_stmt < Len(out.statements)
    /\ Upper(out.statements[next_stmt + 1].command) \in ArcCmds
    /\ out'.geom.raised = None

\* C26: after an arc statement, interpolated or fallback, the cursor is the
\* computed target, not the last interpolated point, and every segment of
\* the arc is linked to the arc's statement; the first segment of any
\* statement starts at the cursor, so the one after an arc starts at the
\* arc's target.
C26_CursorSnapsToArcTarget ==
    [][/\ ArcNext =>
              LET g == out.geom
                  n == Len(g.segments)
                  target == ClaimTarget(out.statements[next_stmt + 1].params, g.absolute,
                                        <<g.x, g.y, g.z>>)
              IN  /\ <<out'.geom.x, out'.geom.y, out'.geom.z>> = target
                  /\ NewSegments # <<>>
                  /\ SegsOf(out'.geom, next_stmt) = [k \in 1..Len(NewSegments) |-> n + k - 1]
                  /\ \A k \in 1..Len(NewSegments) : out'.geom.seg_to_stmt[n + k - 1] = next_stmt
       /\ (phase = "parsed" /\ phase' = "parsed" /\ NewSegments # <<>>) =>
              NewSegments[1].start = <<out.geom.x, out.geom.y, out.geom.z>>
      ]_pvars

\* "G2 X20 I5" and then a move: the arc's last segment ends at (15, 0, 0)
\* and the segment of the move starts at (20, 0, 0)
C26_Witness ==
    /\ phase = "built"
    /\ Len(out.statements) = 2
    /\ Upper(out.statements[1].command) \in CwCmds
    /\ Len(out.geom.segments) = 19
    /\ out.geom.segments[18].end = <<1500, 0, 0>>
    /\ out.geom.segments[19].start = <<2000, 0, 0>>
    /\ SegsOf(out.geom, 1) = <<18>>

-----------------------------------------------------------------------------
(* Statements the builder ignores                                          *)

\* the commands build_geometry_and_index acts on
HandledCmds == {G90, G91} \cup LinearCmds \cup ArcCmds

\* C27: a statement whose command is none of G90, G91, G0/G00, G1/G01,
\* G2/G02, G3/G03 adds no segment and leaves the cursor, the distance mode
\* and the index alone, and still uses up its statement index: the segments
\* of every statement are linked to the position of the statement in the
\* program.
C27_OtherStatementsOnlyTakeAnIndex ==
    [][(phase = "parsed" /\ phase' = "parsed") =>
          /\ next_stmt' = next_stmt + 1
          /\ \A k \in 1..Len(NewSegments) :
                 out'.geom.seg_to_stmt[Len(out.geom.segments) + k - 1] = next_stmt
          /\ Upper(out.statements[next_stmt + 1].command) \notin HandledCmds =>
                 out'.geom = out.geom
      ]_pvars

\* an unlisted spelling with an X word after G91 and before a move that
\* emits: the move's segment is linked to index 2
C27_Witness ==
    /\ phase = "built"
    /\ Len(out.statements) = 3
    /\ Upper(out.statements[1].command) = G91
    /\ Upper(out.statements[2].command) \notin HandledCmds
    /\ "X" \in DOMAIN out.statements[2].params
    /\ SegsOf(out.geom, 1) = <<>>
    /\ SegsOf(out.geom, 2) = <<0>>
    /\ ~out.geom.absolute

-----------------------------------------------------------------------------
(* The distance mode                                                       *)

\* the command of the statement the loop handles next
NextCmd == Upper(out.statements[next_stmt + 1].command)

\* C28: the distance mode starts absolute; G90 sets it to absolute and G91
\* to relative without a segment or a move of the cursor, and every other
\* statement keeps it; a move ends with the cursor on the target that is,
\* per axis, the parameter in absolute mode, cursor + parameter in relative
\* mode and the cursor where the axis is absent; the centre of an arc is
\* cursor + (I, J) in both modes.
C28_DistanceModeAndTarget ==
    [][/\ (phase = "input" /\ phase' = "parsed") =>
              /\ out'.geom.absolute
              /\ <<out'.geom.x, out'.geom.y, out'.geom.z>> = <<0, 0, 0>>
       /\ (phase = "parsed" /\ phase' = "parsed") =>
              LET g == out.geom
                  stmt == out.statements[next_stmt + 1]
                  cursor == <<g.x, g.y, g.z>>
              IN  /\ NextCmd = G90 => out'.geom = [g EXCEPT !.absolute = TRUE]
                  /\ NextCmd = G91 => out'.geom = [g EXCEPT !.absolute = FALSE]
                  /\ NextCmd \notin {G90, G91} => out'.geom.absolute = g.absolute
                  /\ (NextCmd \in LinearCmds \cup ArcCmds /\ out'.geom.raised = None) =>
                         <<out'.geom.x, out'.geom.y, out'.geom.z>>
                             = ClaimTarget(stmt.params, g.absolute, cursor)
       /\ ArcInterpolatedNext =>
              LET g == out.geom
                  stmt == out.statements[next_stmt + 1]
                  t == ClaimTarget(stmt.params, g.absolute, <<g.x, g.y, g.z>>)
                  cx == Val(g.x) + Val(DictGet(stmt.params, "I", 0))
                  cy == Val(g.y) + Val(DictGet(stmt.params, "J", 0))
                  rs == Abs(Val(g.x) - cx) + Abs(Val(g.y) - cy)
                  re == Abs(Val(t[1]) - cx) + Abs(Val(t[2]) - cy)
                  r2 == IF rs > 0 /\ re > 0 THEN rs + re ELSE 2 * Max(rs, re)
                  ang1 == Atan2Deg(FSub(t[2], cy), FSub(t[1], cx))
                  ux == IF ang1 = 0 THEN 1 ELSE IF ang1 \in {180, -180} THEN -1 ELSE 0
                  uy == IF ang1 = 90 THEN 1 ELSE IF ang1 = -90 THEN -1 ELSE 0
                  last == NewSegments[Len(NewSegments)].end
              IN  /\ last[1] = cx + RoundDiv(r2 * ux, 2)
                  /\ last[2] = cy + RoundDiv(r2 * uy, 2)
      ]_pvars

\* "G1 X10 Y0", "G91", "G2 X10 Y0 I5 J0": the arc runs in relative mode from
\* (10, 0) around (15, 0) to (20, 0)
C28_Witness ==
    /\ phase = "built"
    /\ Len(out.statements) = 3
    /\ Upper(out.statements[2].command) = G91
    /\ Upper(out.statements[3].command) \in CwCmds
    /\ ~out.geom.absolute
    /\ <<out.geom.x, out.geom.y, out.geom.z>> = <<2000, 0, 0>>
    /\ Len(out.geom.segments) = 19
    /\ out.geom.segments[10].end = <<1500, 500, 0>>

-----------------------------------------------------------------------------
(* The footer boundary                                                     *)

M5Words == { <<"M", "5">>, <<"M", "0", "5">> }

\* the content of a line: without its ";" comment, trimmed and upper-cased;
\* a line that is one parenthetical comment has none
LineContent(line) ==
    IF _is_full_line_comment(line) THEN <<>> ELSE Upper(Strip(_strip_inline_comment(line)))

\* the 1-based positions of the lines whose content is M5 or M05 as a whole
WholeM5Lines == {k \in 1..Len(InLines) : LineContent(InLines[k]) \in M5Words}

\* the 1-based positions of the lines whose content has M5 or M05 among its
\* whitespace-separated words
WordM5Lines ==
    {k \in 1..Len(InLines) :
        \E w \in 1..Len(Split(LineContent(InLines[k]))) :
            Split(LineContent(InLines[k]))[w] \in M5Words}

\* the body when the footer boundary is the last of the marked lines: the
\* footer is empty when no line is marked or the last marked one is not
\* after the header's last line, and the original lines come back when
\* nothing but blank lines is left between header and footer
BodyWithFooterAt(marked) ==
    LET hdr == HeaderEnd(InLines) + 1
        last == IF marked = {} THEN 0 ELSE CHOOSE k \in marked : \A h \in marked : h <= k
        footer == IF last <= hdr THEN Len(InLines) + 1 ELSE last
        between == SubSeq(InLines, hdr + 1, footer - 1)
    IN  IF LastNonBlank(between) = 0 THEN InLines
        ELSE SubSeq(between, 1, LastNonBlank(between))

\* C29 as stated: the footer boundary is the last line whose comment-stripped,
\* upper-cased content is exactly M5 or M05 as the whole line; a line with
\* M5 among other words, such as "G0 Z0 M5", is no boundary.
C29_FooterStartsAtWholeLineM5 ==
    phase # "input" => out.body_lines = BodyWithFooterAt(WholeM5Lines)

\* C29 as amended: the footer boundary is the last line, not a full-line
\* parenthetical comment, whose content after the ";" comment is taken off
\* has M5 or M05 (in either case) as one of its whitespace-separated words;
\* "G0 Z0 M5" is a boundary.  The footer is that line through the end of the
\* text, and it is empty when there is no such line or the line is not after
\* the header's last line.
C29_FooterStartsAtM5Word ==
    phase # "input" => out.body_lines = BodyWithFooterAt(WordM5Lines)

\* "G1 X1", "G0 Z0 M5", "G1 X1": the footer starts at the second line
C29_Witness ==
    /\ phase = "extracted"
    /\ InLines = << <<"G", "1", SP, "X", "1">>, <<"G", "0", SP, "Z", "0", SP, "M", "5">>,
                    <<"G", "1", SP, "X", "1">> >>
    /\ WholeM5Lines = {}
    /\ WordM5Lines = {2}
    /\ out.body_lines = << <<"G", "1", SP, "X", "1">> >>

-----------------------------------------------------------------------------
(* Words inside comments                                                   *)

\* the code of a line: what stands before the first ";" and before the
\* first "(", trimmed
CodeOutsideComments(line) ==
    LET semi == _strip_inline_comment(line)
    IN  Strip(IF Find(semi, "(") = -1 THEN semi ELSE Prefix(semi, Find(semi, "(")))

\* the 1-based positions of the lines with an S word used as G-code
SCodeLines ==
    {k \in 1..Len(InLines) :
        \E w \in 1..Len(Split(CodeOutsideComments(InLines[k]))) :
            LET word == Split(CodeOutsideComments(InLines[k]))[w]
            IN  Len(word) > 1 /\ word[1] = "S" /\ word[2] \in Digits \cup {"+", "-", "."}}

\* the 1-based positions of the lines with M5 or M05 used as G-code
M5CodeLines ==
    {k \in 1..Len(InLines) :
        \E w \in 1..Len(Split(CodeOutsideComments(InLines[k]))) :
            Upper(Split(CodeOutsideComments(InLines[k]))[w]) \in M5Words}

\* the body between the first of the header marks and the last of the
\* footer marks
BodyBetweenMarks(smarks, m5marks) ==
    LET hdr == IF smarks = {} THEN 0 ELSE CHOOSE k \in smarks : \A h \in smarks : k <= h
        last == IF m5marks = {} THEN 0 ELSE CHOOSE k \in m5marks : \A h \in m5marks : h <= k
        footer == IF last <= hdr THEN Len(InLines) + 1 ELSE last
        between == SubSeq(InLines, hdr + 1, footer - 1)
    IN  IF LastNonBlank(between) = 0 THEN InLines
        ELSE SubSeq(between, 1, LastNonBlank(between))

\* C30: an S word or an M5/M05 word counts for the header and the footer
\* only where it is used as G-code: a line that has it only after ";" or
\* only inside a parenthetical comment, full-line or trailing as in
\* "G1 X1 (set S1000 now)", is neither a header boundary nor a footer
\* boundary.
C30_WordsInCommentsAreNoBoundary ==
    phase # "input" => out.body_lines = BodyBetweenMarks(SCodeLines, M5CodeLines)

\* the lines of the text are free of trailing parenthetical comments
NoTrailingParenthetical ==
    \A k \in 1..Len(InLines) :
        _is_full_line_comment(InLines[k]) \/ Find(InLines[k], "(") = -1

\* away from trailing parenthetical comments the boundaries are the ones of
\* C30
C30_HoldsWithoutTrailingParenthetical ==
    (phase # "input" /\ NoTrailingParenthetical) =>
        out.body_lines = BodyBetweenMarks(SCodeLines, M5CodeLines)

-----------------------------------------------------------------------------
(* The body and its fallback                                               *)

\* the lines strictly between the header end and the footer start, the
\* footer being empty when its boundary does not lie after the header
LinesBetween ==
    LET hdr == HeaderEnd(InLines) + 1
        m5 == LastM5(InLines) + 1
        footer == IF m5 <= hdr THEN Len(InLines) + 1 ELSE m5
    IN  SubSeq(InLines, hdr + 1, footer - 1)

\* C31: extract_body returns the lines strictly between the header end and
\* the footer start without their trailing blank lines, and the whole
\* original sequence of lines when nothing is left of them; the result is
\* not empty unless the input has no line, and it is a contiguous run of the
\* input lines.
C31_BodyOrWholeText ==
    phase # "input" =>
        /\ out.body_lines = IF LastNonBlank(LinesBetween) = 0 THEN InLines
                            ELSE SubSeq(LinesBetween, 1, LastNonBlank(LinesBetween))
        /\ InLines # <<>> => out.body_lines # <<>>
        /\ \E i \in 1..(Len(InLines) + 1) : \E j \in 0..Len(InLines) :
               out.body_lines = SubSeq(InLines, i, j)

\* "S1000", "", "M5": only a blank line between header and footer, so the
\* three lines come back
C31_Witness ==
    /\ phase = "extracted"
    /\ InLines = << <<"S", "1", "0", "0", "0">>, <<>>, <<"M", "5">> >>
    /\ HeaderEnd(InLines) = 0
    /\ LastM5(InLines) = 2
    /\ out.body_lines = InLines

-----------------------------------------------------------------------------
(* The offset edit                                                         *)

\* the offsets of the job of the offset harness
JobOffsets(job) == <<job.offset_x, job.offset_y, job.offset_z>>

\* the step is an offset edit whose reparse has failed
OffsetReparseFailed ==
    /\ dialog # "Offset error"
    /\ dialog' = "Offset error"

C32_FailedOffsetEditKeepsBuild ==
    [][OffsetReparseFailed =>
           /\ project_jobs'[1].original_source = project_jobs[1].original_source
           /\ project_jobs'[1].program = project_jobs[1].program
           /\ project_jobs'[1].geometry = project_jobs[1].geometry
           /\ project_jobs'[1].program_index = project_jobs[1].program_index
           /\ editor_text' = editor_text
      ]_vars

\* a failed offset edit has left other offsets in the job
C32_FailedEditReached ==
    /\ dialog = "Offset error"
    /\ JobOffsets(project_jobs[1]) # in_offsets

-----------------------------------------------------------------------------
(* The pick query                                                          *)

\* the segments of the shown jobs, as <<job, segment index>>
ShownSegments ==
    {js \in (1..Len(out.jobs)) \X (0..3) :
        out.jobs[js[1]].visible /\ js[2] < Len(out.jobs[js[1]].geometry)}

\* the squared XY distance of the hit to a segment
HitDistSq(js) == SegmentDistSq(out.jobs[js[1]].geometry[js[2] + 1], out.point[1], out.point[2])

\* the shown segments nearer to the hit than the pick radius
InPickRadius ==
    {js \in ShownSegments :
        FracLess(HitDistSq(js), [num |-> out.pick_radius * out.pick_radius, den |-> 1])}

\* js comes before ks in job order and then segment order
PickOrderBefore(js, ks) == js[1] < ks[1] \/ (js[1] = ks[1] /\ js[2] < ks[2])

\* the first element of a non-empty set of segments in that order
FirstInPickOrder(S) == CHOOSE js \in S : \A ks \in S : ks = js \/ PickOrderBefore(js, ks)

\* the segments of the set that no other one of the set is nearer than
NearestOf(S) == {js \in S : \A ks \in S : ~FracLess(HitDistSq(ks), HitDistSq(js))}

\* C33 as stated: the pick returns the first segment, in job order and then
\* segment order, of a shown job within the pick radius in XY, not the
\* nearest one; nothing is picked and no callback fires when there is none.
C33_PickIsFirstWithinRadius ==
    phase = "picked" =>
        /\ out.picked = IF InPickRadius = {} THEN None ELSE Some(FirstInPickOrder(InPickRadius))
        /\ out.picked = None => out.callbacks = <<>>

\* C33 as amended: the pick returns the segment of a shown job whose XY
\* distance to the point is the smallest among those with a distance below
\* the pick radius, and the first of them in job order and then segment
\* order when several are equally near; Z plays no part, hidden jobs are
\* never returned, and nothing is picked and no callback fires when no
\* segment is nearer than the radius.
C33_PickIsNearestFirstOnTie ==
    phase = "picked" =>
        /\ out.picked = IF InPickRadius = {} THEN None
                        ELSE Some(FirstInPickOrder(NearestOf(InPickRadius)))
        /\ out.picked # None => out.jobs[out.picked[1][1]].visible
        /\ out.picked = None <=> out.callbacks = <<>>

\* two shown jobs, "G1 X1" before the one 0.5 above it, and a hit 0.4 above
\* the first: both are within the radius and the second is picked
C33_Witness ==
    /\ phase = "picked"
    /\ Len(out.jobs) = 2
    /\ out.point = <<50, 40>>
    /\ out.pick_radius = 100
    /\ InPickRadius = { <<1, 0>>, <<2, 0>>, <<2, 1>> }
    /\ out.picked = Some(<<2, 1>>)

\* a hit at the same distance from two segments picks the first of them
C33_TieReached ==
    /\ phase = "picked"
    /\ Cardinality(NearestOf(InPickRadius)) > 1
    /\ out.picked = Some(FirstInPickOrder(NearestOf(InPickRadius)))

-----------------------------------------------------------------------------
(* The fields of the stepper                                               *)

\* the stepper is idle exactly when it holds no job, has no cursor when
\* idle, and its timer runs exactly when it is running
StepperConsistent ==
    /\ sim_state \in {"idle", "running", "paused"}
    /\ sim_state = "idle" <=> sim_job = None
    /\ sim_state = "idle" => sim_current_stmt_index = -1
    /\ timer_active <=> sim_state = "running"

\* C34: after any sequence of start, pause, stop, tick, selection, new
\* project, import and reparse the stepper is idle if and only if it holds no
\* simulated job, idle implies that the cursor is -1, and the timer is active
\* if and only if the state is running; pause in idle or paused and stop in
\* idle change nothing.
C34_StepperFieldsAgree ==
    /\ []StepperConsistent
    /\ [][/\ (PauseSimulation /\ sim_state # "running") => Window' = Window
          /\ (StopSimulation /\ sim_state = "idle") => Window' = Window
         ]_vars

\* a paused run: a job and a cursor are held and the timer is stopped
C34_Witness ==
    /\ sim_state = "paused"
    /\ sim_job # None
    /\ sim_current_stmt_index > 0
    /\ ~timer_active
    /\ status_message = "G-code updated from editor"

-----------------------------------------------------------------------------
(* Ticks and reparses of the simulated job                                 *)

\* the program the simulated job has now
SimProgram == project_jobs[sim_job[1]].program

\* C35: however ticks and reparses of the simulated job interleave, a tick
\* that gets past its early returns hands on an index i with
\* 0 <= i < number of statements of the job's program as it is at that tick,
\* and a tick that finds the program empty stops the simulation and hands
\* on nothing.
C35_TickIndexWithinProgram ==
    [][SimTick =>
          /\ TickAdvances =>
                 /\ 0 <= tick_stmt_index'
                 /\ tick_stmt_index' < Len(SimProgram)
                 /\ sim_current_stmt_index' \in {-1, tick_stmt_index'}
          /\ (sim_state = "running" /\ sim_job # None /\ SimProgram = <<>>) =>
                 /\ sim_state' = "idle"
                 /\ sim_job' = None
                 /\ ~timer_active'
                 /\ head_marker' = None
                 /\ tick_stmt_index' = tick_stmt_index
                 /\ editor_pos' = editor_pos
      ]_vars

\* the program of the running job has become shorter than the cursor
C35_Witness ==
    /\ sim_state = "running"
    /\ sim_job # None
    /\ SimProgram # <<>>
    /\ sim_current_stmt_index >= Len(SimProgram)

\* the program of the running job has become empty
C35_EmptyWhileRunning ==
    /\ sim_state = "running"
    /\ sim_job # None
    /\ SimProgram = <<>>
    /\ sim_current_stmt_index >= 0

-----------------------------------------------------------------------------
(* Building the canonical text again                                       *)

\* the step has reparsed the job with a text build_final_gcode has made
ReparsedWithBuiltText ==
    /\ project_jobs'[1].original_source # project_jobs[1].original_source
    /\ \/ project_jobs'[1].original_source = editor_text
       \/ project_jobs'[1].original_source = editor_text'

C36_BodyGrowsByTemplateLines ==
    [][ReparsedWithBuiltText =>
           LET before == extract_body(project_jobs[1].original_source)
               wrapped == IF JoinLines(before) = <<>> THEN <<>> ELSE before
           IN  extract_body(project_jobs'[1].original_source)
                   = << <<"G", "4", SP, "P", "2", ".", "5">> >> \o wrapped
                        \o << <<"G", "5", "3">>, <<"G", "0", SP, "Z", "0">> >>
      ]_vars

-----------------------------------------------------------------------------
(* The first G/M word of a line                                            *)

\* the numeric G and M words of a line outside its comments, in upper case
NumericGMWords(raw) ==
    LET words == Split(SplitComment(raw).code_part)
        gm(w) == Len(w) > 1 /\ UpperChar(w[1]) \in {"G", "M"} /\ IsFloat(Tail(w))
        found == SelectSeq(words, gm)
    IN  [k \in 1..Len(found) |-> Upper(found[k])]

\* the first of them, or the empty word
FirstGMWord(raw) ==
    IF NumericGMWords(raw) = <<>> THEN <<>> ELSE NumericGMWords(raw)[1]

\* True when a later G/M word of the line is one the builder would act on
LaterWordHandled(raw) ==
    \E k \in 2..Len(NumericGMWords(raw)) : NumericGMWords(raw)[k] \in HandledCmds

\* C37: the first numeric G/M word of a line is the statement's command and
\* alone decides what the line does to the geometry: a line whose first
\* G/M word is no motion word emits no segment and leaves the cursor where
\* it is, whatever motion words and coordinates follow, and a line whose
\* first G/M word is neither G90 nor G91 leaves the distance mode alone.
C37_FirstWordDecides ==
    [][/\ (phase = "input" /\ phase' = "parsed") =>
              \A k \in 1..Len(out'.statements) :
                  Upper(out'.statements[k].command) = FirstGMWord(out'.statements[k].raw)
       /\ (phase = "parsed" /\ phase' = "parsed") =>
              LET first == FirstGMWord(out.statements[next_stmt + 1].raw)
              IN  /\ first \notin LinearCmds \cup ArcCmds =>
                         /\ NewSegments = <<>>
                         /\ out'.geom.stmt_to_segs = out.geom.stmt_to_segs
                         /\ <<out'.geom.x, out'.geom.y, out'.geom.z>>
                                = <<out.geom.x, out.geom.y, out.geom.z>>
                  /\ first \notin {G90, G91} => out'.geom.absolute = out.geom.absolute
      ]_pvars

\* "M3 G1 X5", "G1 X5 G91", "G1 X5": the first line does not move, so the
\* second emits (0,0,0) -> (5,0,0); its G91 does not count, so the third
\* has the cursor as its target and emits nothing
C37_Witness ==
    /\ phase = "built"
    /\ Len(out.statements) = 3
    /\ LaterWordHandled(out.statements[1].raw)
    /\ FirstGMWord(out.statements[1].raw) = <<"M", "3">>
    /\ \A k \in {2, 3} : "X" \in DOMAIN out.statements[k].params
    /\ NumericGMWords(out.statements[2].raw) = << <<"G", "1">>, G91 >>
    /\ out.geom.segments = << [start |-> <<0, 0, 0>>, end |-> <<500, 0, 0>>] >>
    /\ SegsOf(out.geom, 1) = <<0>>
    /\ out.geom.absolute

\* "G90 G1 X10" in relative mode: the line sets the absolute mode and
\* neither moves nor emits
C37_ModeWordFirstReached ==
    /\ phase = "built"
    /\ Len(out.statements) = 2
    /\ Upper(out.statements[1].command) = G91
    /\ NumericGMWords(out.statements[2].raw) = << G90, <<"G", "1">> >>
    /\ out.geom.segments = <<>>
    /\ out.geom.absolute

-----------------------------------------------------------------------------
(* The order of the index                                                  *)

\* C38: in the index that build_geometry_and_index returns, the list of a
\* statement is a run of consecutive segment indices in ascending order,
\* the segments of an earlier statement all lie before those of a later
\* one, and statement_to_segments has a key for a statement exactly when
\* the statement has emitted a segment.
C38_IndexFollowsStatementOrder ==
    phase = "built" =>
        LET g == out.geom
            keys == DOMAIN g.stmt_to_segs
        IN  /\ \A a \in keys :
                   /\ g.stmt_to_segs[a] # <<>>
                   /\ \A k \in 1..(Len(g.stmt_to_segs[a]) - 1) :
                          g.stmt_to_segs[a][k + 1] = g.stmt_to_segs[a][k] + 1
            /\ \A a, b \in keys :
                   a < b => \A p \in 1..Len(g.stmt_to_segs[a]) :
                                \A q \in 1..Len(g.stmt_to_segs[b]) :
                                    g.stmt_to_segs[a][p] < g.stmt_to_segs[b][q]
            /\ \A i \in 0..(Len(out.statements) - 1) :
                   i \in keys <=> \E s \in DOMAIN g.seg_to_stmt : g.seg_to_stmt[s] = i

\* an arc of several segments, a statement that emits nothing and a move:
\* the keys are 0 and 2, and the move's segment comes after the arc's
C38_Witness ==
    /\ phase = "built"
    /\ Len(out.statements) = 3
    /\ DOMAIN out.geom.stmt_to_segs = {0, 2}
    /\ Len(out.geom.stmt_to_segs[0]) = 18
    /\ out.geom.stmt_to_segs[0][18] = 17
    /\ out.geom.stmt_to_segs[2] = <<18>>

-----------------------------------------------------------------------------
(* The path of a program without arcs                                      *)

\* True when no statement of the program is an arc
NoArcStatements ==
    \A k \in 1..Len(out.statements) : Upper(out.statements[k].command) \notin ArcCmds

C39_RelativeAndIdleMovesReached ==
    /\ phase = "built"
    /\ NoArcStatements
    /\ Len(out.statements) = 3
    /\ ~out.geom.absolute
    /\ Len(out.geom.segments) = 2
    /\ out.geom.segments[2].end = <<1000, 0, 0>>

-----------------------------------------------------------------------------
(* The head marker of an idle stepper                                      *)

\* no head marker is shown while the stepper is idle
IdleHasNoHead == sim_state = "idle" => head_marker = None

\* C40: whenever the stepper is idle no head marker is shown: every step
\* that makes the stepper idle (stop, change of job, new project, the tick
\* on the last statement, the tick on an empty program) leaves no marker, a
\* fresh start leaves none either, and only a tick of a running simulation
\* that goes on running can put up a marker or move it.
C40_IdleShowsNoHead ==
    /\ []IdleHasNoHead
    /\ [][/\ (sim_state # "idle" /\ sim_state' = "idle") => head_marker' = None
          /\ (StartSimulation /\ sim_state' = "running" /\ sim_current_stmt_index' = -1) =>
                 head_marker' = None
          /\ (head_marker' # None /\ head_marker' # head_marker) =>
                 /\ SimTick
                 /\ TickAdvances
                 /\ sim_state' = "running"
          /\ (SimTick /\ TickAdvances
                /\ tick_stmt_index' = Len(project_jobs[sim_job[1]].program) - 1) =>
                 /\ sim_state' = "idle"
                 /\ head_marker' = None
         ]_vars

\* the tick on the last statement of Scenario A: the statement has a
\* segment, the tick has highlighted it and stopped the simulation, and no
\* head marker is left on the segment's end
C40_Witness ==
    /\ sim_state = "idle"
    /\ status_message = "Simulation completed"
    /\ current_job # None
    /\ tick_stmt_index = Len(project_jobs[current_job[1]].program) - 1
    /\ DictGet(project_jobs[current_job[1]].program_index.statement_to_segments,
               tick_stmt_index, <<>>) # <<>>
    /\ highlight # None
    /\ head_marker = None

\* a marker is shown while the simulation runs
C40_MarkerShownWhileRunning ==
    /\ sim_state = "running"
    /\ head_marker # None

=============================================================================
